---- MODULE Spec2Model ----
(***************************************************************************)
(* Model of the host/sandbox relay of modal_agents_sdk.                     *)
(*                                                                         *)
(* Sandbox side (RUNNER_SCRIPT in _constants.py): HookProxy.pre_tool_use   *)
(* and HostToolProxy.call_tool register a waiter, emit a request line on   *)
(* stdout and wait for the response the StdinResponseReader thread stores. *)
(* Host side (_sandbox.py): SandboxManager._execute_with_host_features     *)
(* reads stdout line by line, dispatches requests to HookDispatcher /      *)
(* HostToolDispatcher and writes the responses to the process's stdin.     *)
(***************************************************************************)
EXTENDS Integers, Sequences, FiniteSets, TLC

\* ------------------------------------------------------------------ bounds
\* Number of proxied calls (hook or host-tool round trips) of one run.
NCalls == 2
\* Number of lines the process writes to stdout besides request envelopes.
MaxLines == 2
\* Number of response lines the environment may put on stdin besides the host's.
MaxInject == 1
\* Longest chain of callbacks registered for one hook event.
MaxCallbacks == 2
\* Largest number of tools of one host tool server.
MaxTools == 2

None == "None"
Calls == 1..NCalls
\* A request_id that no call of this run has generated.
ForeignId == 0
Ids == {ForeignId} \cup Calls

VARIABLES
    features,     \* which of hooks / host_tools the options configure
    host_hooks,   \* options.host_hooks: the ModalAgentHooks of the run
    host_tools,   \* options.host_tools: the HostToolServers of the run
    kind,         \* kind[c]: "hook" | "tool" | None while the call has not begun
    callTool,     \* tool_name of call c
    callInput,    \* tool_input of call c
    pc,           \* position of call c in its coroutine (index into its steps)
    response_events, \* _response_events: ids with a registered waiter
    evset,        \* calls whose asyncio.Event is set
    response_data,   \* _response_data: id -> stored response or None
    loopq,        \* event.set callbacks handed to the loop, not yet run
    result,       \* value returned by the call
    got,          \* response the call took from _response_data (None: none)
    timedOut,     \* calls whose wait_for raised TimeoutError
    waited,       \* seconds wait_for had waited when it raised (0: it has not)
    hookOut,      \* output of pre_tool_use_hook for the call
    executed,     \* hook calls whose tool the agent runtime has run
    failed,       \* hook calls whose tool run, if any, fails in the sandbox
    stdout,       \* lines written by the process, not yet read by the host
    stdin,        \* lines written to the process's stdin, not yet read
    nLines,       \* number of non-request lines written so far
    exited,       \* the process has ended (stdout reaches EOF)
    hostCur,      \* request the host loop is dispatching (None: reading)
    lineClass,    \* class of each non-request line written so far, in order
    nRead,        \* number of non-request lines the host has read so far
    yielded,      \* messages yielded to the caller so far, in order
    hostResp,     \* hostResp[c]: response the host produced for request c
    hostInvoked,  \* hostInvoked[c]: callbacks / handlers invoked for request c
    postSeen,     \* PostToolUse requests dispatched to callbacks, in order
    recvLog,      \* responses the stdin reader has stored so far, in order
    nInject,      \* number of injected stdin lines so far
    returncode,   \* process.returncode (NoExitCode until the process ends)
    stderr,       \* text the process has written to its stderr
    outcome,      \* how the host's message generator stands: running or ended
    options,      \* the ModalAgentOptions fields that create_sandbox validates
    sandbox,      \* SandboxManager._sandbox (None: the manager holds none)
    platform,     \* the sandbox on the platform: "none", "running", "terminated"
    nTerminate,   \* calls of Sandbox.terminate made on the platform so far
    qpc,          \* where the caller stands: start, idle, iterating, done, closed
    qerr,         \* what the caller's last call raised
    client,       \* the ModalAgentClient: _is_connected, _pending_response
    lineData,     \* subtype and session_id of each non-request line, in order
    stdout_lock,  \* holder of _stdout_lock (None: free)
    emit_pc,      \* position of each emitter in emit_message, and its line
    written,      \* pieces of bytes written to the process's stdout, in order
    response_lock, \* holder of _response_lock (None: free)
    lock_pc       \* position of each thread in its with _response_lock block

vars == <<features, host_hooks, host_tools, kind, callTool, callInput, pc, response_events, evset,
          response_data, loopq, result, got, timedOut, waited, hookOut,
          executed, failed, stdout, stdin, nLines, exited, hostCur, lineClass, nRead, yielded,
          hostResp, hostInvoked, postSeen, recvLog, nInject, returncode,
          stderr, outcome, options, sandbox, platform, nTerminate, qpc, qerr,
          client, lineData, stdout_lock, emit_pc, written, response_lock,
          lock_pc>>

\* The callers of emit_message: emit_agent_message, the hook proxy and the
\* host tool proxies, by the _type they emit.
Emitters == {"message", "hook_request", "host_tool_request"}

\* Lines each emitter writes, and writes to the file descriptor per line.
MaxEmits == 2
PiecesPerLine == 2

\* Where an emitter is in emit_message: its step, the number of its line and
\* the pieces of it written so far.
EmitAt(at, line, pieces) == [at |-> at, line |-> line, pieces |-> pieces]

\* Piece k of line number line of emitter e.
Piece(e, line, k) == [emitter |-> e, line |-> line, k |-> k]

\* The threads of the process that use the waiter tables: the thread of
\* the event loop, which runs the proxies' coroutines, and the thread of
\* StdinResponseReader.
Threads == {"loop", "reader"}

\* Where a thread is with respect to a with _response_lock block: outside
\* ("idle"), inside before its table accesses ("locked") or after them
\* ("accessed"), or, the reader, about to hand event.set to the loop
\* ("signal"); op and id say which block and for which request_id.
LockAt(at, op, id) == [at |-> at, op |-> op, id |-> id]

\* sub occurs in the string s.
Contains(s, sub) ==
    \E i \in 0..(Len(s) - Len(sub)) : SubSeq(s, i + 1, i + Len(sub)) = sub

\* ------------------------------------------------------- host: hook dispatch
\* The callbacks of examples/hooks.py and tests/test_hooks.py, as functions
\* of the hook input.  A tool_input is named by its one value: the command
\* of a Bash call or the file_path of a file call.
\* A callback returns a PreToolUseHookResult, or raises.
HookResult(decision, reason, updated_input) ==
    [decision |-> decision, reason |-> reason, updated_input |-> updated_input]

Raise == HookResult("raise", None, None)

DangerousInputs == {"rm -rf /"}

security_hook(tool_name, tool_input) ==
    IF tool_name = "Bash" /\ tool_input \in DangerousInputs
    THEN HookResult("deny", "Blocked dangerous command pattern", None)
    ELSE HookResult("allow", None, None)

path_redirect_hook(tool_name, tool_input) ==
    IF tool_name \in {"Read", "Write", "Edit"} /\ tool_input = "/etc/passwd"
    THEN HookResult("allow", None, "/workspace/fake_etc/passwd")
    ELSE HookResult("allow", None, None)

\* "rm" in input.tool_input.get("command", "")
block_rm(tool_name, tool_input) ==
    IF tool_input \in {"rm -rf /"}
    THEN HookResult("deny", "rm command blocked", None)
    ELSE HookResult("allow", None, None)

redirect_path(tool_name, tool_input) ==
    IF tool_name = "Read"
    THEN HookResult("allow", None, "/safe/path")
    ELSE HookResult("allow", None, None)

\* PreToolUseHookResult(decision="deny"): reason keeps its default, None.
counting_hook(tool_name, tool_input) == HookResult("deny", None, None)

\* callback(hook_input) for the callback registered under this name; any
\* other callable (a post-tool-use callback returns None, so reading
\* result.decision fails) raises inside the try block.
Callback(name, tool_name, tool_input) ==
    CASE name = "security_hook" -> security_hook(tool_name, tool_input)
      [] name = "path_redirect_hook" -> path_redirect_hook(tool_name, tool_input)
      [] name = "block_rm" -> block_rm(tool_name, tool_input)
      [] name = "redirect_path" -> redirect_path(tool_name, tool_input)
      [] name = "counting_hook" -> counting_hook(tool_name, tool_input)
      [] OTHER -> Raise

\* Whether a post-tool-use callback returns ("ok") or raises ("raise").
PostCallback(name) ==
    IF name \in {"audit_post_hook", "capture_hook"} THEN "ok" ELSE "raise"

\* ModalAgentHooks.timeout when none is given, in seconds.
HooksTimeoutDefault == 30

\* ModalAgentHooks of examples/hooks.py.
HooksConfig ==
    [pre_tool_use |-> <<"security_hook", "path_redirect_hook">>,
     post_tool_use |-> <<"audit_post_hook">>,
     tool_filter |-> "Bash|Read|Write|Edit",
     timeout |-> HooksTimeoutDefault]

\* re.compile(pattern).match(tool_name): the pattern matches at the start of
\* the name; by the tool names of the model.
PatternMatches(pattern, tool_name) ==
    CASE pattern = "Bash|Read|Write|Edit" ->
             tool_name \in {"Bash", "Read", "Write", "Edit", "BashOutput"}
      [] pattern = "Bash" -> tool_name \in {"Bash", "BashOutput"}
      [] OTHER -> FALSE

should_intercept_Always(hooks, tool_name) == TRUE

should_intercept(hooks, tool_name) ==
    IF hooks.tool_filter = None THEN TRUE
    ELSE PatternMatches(hooks.tool_filter, tool_name)

HookResponse(request_id, decision, reason, updated_input) ==
    [type |-> "hook_response", request_id |-> request_id,
     decision |-> decision, reason |-> reason, updated_input |-> updated_input,
     content |-> <<>>, is_error |-> FALSE]

\* One callback invocation: the callback and the tool_input it was given.
Invocation(name, tool_input) == [callback |-> name, tool_input |-> tool_input]

\* What a dispatch does: the callbacks it invoked, in order, and the
\* response it returns.
Dispatched(response, invoked) == [response |-> response, invoked |-> invoked]

AllowResponse_AlwaysUpdated(request_id, working, orig) ==
    HookResponse(request_id, "allow", None, working)

\* The response built after the loop: updated_input only if the working
\* input differs from request["tool_input"].
AllowResponse(request_id, working, orig) ==
    HookResponse(request_id, "allow", None,
                 IF working # orig THEN working ELSE None)

RECURSIVE RunPreCallbacks_NoShortCircuit(_, _, _, _, _, _)
RunPreCallbacks_NoShortCircuit(hooks, request, i, working, orig, invoked) ==
    IF i > Len(hooks.pre_tool_use)
    THEN Dispatched(AllowResponse(request.request_id, working, orig), invoked)
    ELSE LET r == Callback(hooks.pre_tool_use[i], request.tool_name, working)
             inv == Append(invoked, Invocation(hooks.pre_tool_use[i], working))
             rest == RunPreCallbacks_NoShortCircuit(hooks, request, i + 1,
                                                    working, orig, inv)
         IN
         IF r # Raise /\ r.decision = "deny"
         THEN Dispatched(HookResponse(request.request_id, "deny", r.reason, None),
                         rest.invoked)
         ELSE rest

RECURSIVE RunPreCallbacks_RaiseStops(_, _, _, _, _, _)
RunPreCallbacks_RaiseStops(hooks, request, i, working, orig, invoked) ==
    IF i > Len(hooks.pre_tool_use)
    THEN Dispatched(AllowResponse(request.request_id, working, orig), invoked)
    ELSE LET r == Callback(hooks.pre_tool_use[i], request.tool_name, working)
             inv == Append(invoked, Invocation(hooks.pre_tool_use[i], working))
         IN
         IF r = Raise
         THEN Dispatched(AllowResponse(request.request_id, working, orig), inv)
         ELSE IF r.decision = "deny"
         THEN Dispatched(HookResponse(request.request_id, "deny", r.reason, None),
                         inv)
         ELSE RunPreCallbacks_RaiseStops(hooks, request, i + 1,
                  IF r.updated_input # None THEN r.updated_input ELSE working,
                  orig, inv)

\* The for loop of dispatch_pre_tool_use from callback i on, with the working
\* hook_input.tool_input; orig is request["tool_input"], invoked the
\* invocations made so far.
RECURSIVE RunPreCallbacks(_, _, _, _, _, _)
RunPreCallbacks(hooks, request, i, working, orig, invoked) ==
    IF i > Len(hooks.pre_tool_use)
    THEN Dispatched(AllowResponse(request.request_id, working, orig), invoked)
    ELSE LET r == Callback(hooks.pre_tool_use[i], request.tool_name, working)
             inv == Append(invoked, Invocation(hooks.pre_tool_use[i], working))
         IN
         IF r = Raise
         THEN RunPreCallbacks(hooks, request, i + 1, working, orig, inv)
         ELSE IF r.decision = "deny"
         THEN Dispatched(HookResponse(request.request_id, "deny", r.reason, None),
                         inv)
         ELSE IF r.updated_input # None
         THEN RunPreCallbacks(hooks, request, i + 1, r.updated_input, orig, inv)
         ELSE RunPreCallbacks(hooks, request, i + 1, working, orig, inv)

\* dispatch_pre_tool_use with the invocations it makes.
pre_tool_use_run(hooks, request) ==
    IF ~should_intercept(hooks, request.tool_name)
    THEN Dispatched(HookResponse(request.request_id, "allow", None, None), <<>>)
    ELSE RunPreCallbacks(hooks, request, 1, request.tool_input,
                         request.tool_input, <<>>)

dispatch_pre_tool_use(hooks, request) == pre_tool_use_run(hooks, request).response

RECURSIVE RunPostCallbacks_StopAtRaise(_, _, _, _)
RunPostCallbacks_StopAtRaise(hooks, request, i, invoked) ==
    IF i > Len(hooks.post_tool_use)
    THEN invoked
    ELSE LET inv == Append(invoked,
                           Invocation(hooks.post_tool_use[i], request.tool_input))
         IN
         IF PostCallback(hooks.post_tool_use[i]) = "raise"
         THEN inv
         ELSE RunPostCallbacks_StopAtRaise(hooks, request, i + 1, inv)

\* The for loop of dispatch_post_tool_use from callback i on: an exception
\* of a callback is caught inside the loop body.
RECURSIVE RunPostCallbacks(_, _, _, _)
RunPostCallbacks(hooks, request, i, invoked) ==
    IF i > Len(hooks.post_tool_use)
    THEN invoked
    ELSE LET inv == Append(invoked,
                           Invocation(hooks.post_tool_use[i], request.tool_input))
         IN
         IF PostCallback(hooks.post_tool_use[i]) = "raise"
         THEN RunPostCallbacks(hooks, request, i + 1, inv)
         ELSE RunPostCallbacks(hooks, request, i + 1, inv)

\* The hook_input dispatch_post_tool_use builds from a request.
PostToolUseHookInput(request) ==
    [tool_name |-> request.tool_name, tool_input |-> request.tool_input,
     is_error |-> request.is_error]

\* dispatch_post_tool_use: the callbacks invoked for the request, in order
\* (nothing is returned to the sandbox).
dispatch_post_tool_use(hooks, request) ==
    IF ~should_intercept(hooks, request.tool_name)
    THEN <<>>
    ELSE RunPostCallbacks(hooks, request, 1, <<>>)

\* ------------------------------------------------------- host: tool dispatch
\* What calling a handler gives: coroutine tells an async def handler (the
\* call returns a coroutine that dispatch awaits) from a plain function;
\* shape is the kind of value returned, or "raise"; value is the content
\* list (the texts of its blocks), the body of the mapping, the string, the
\* printed form of another value, or the message of the exception;
\* is_error is the is_error entry of a returned mapping (FALSE: none).
HandlerResult(coroutine, shape, value) ==
    [coroutine |-> coroutine, shape |-> shape, value |-> value,
     is_error |-> FALSE]

\* Handlers of tests/test_host_tools.py; further handlers by what they return.
Handler(name, tool_input) ==
    CASE name = "echo_tool" -> HandlerResult(TRUE, "content", <<tool_input>>)
      [] name = "sync_echo" -> HandlerResult(FALSE, "content", <<tool_input>>)
      [] name = "tool_a" -> HandlerResult(TRUE, "content", <<>>)
      [] name = "tool_b" -> HandlerResult(TRUE, "content", <<>>)
      [] name = "read_local_file" ->
             [HandlerResult(TRUE, "content", <<"Not a file: " \o tool_input>>)
                 EXCEPT !.is_error = TRUE]
      [] name = "str_tool" -> HandlerResult(TRUE, "str", "plain string result")
      [] name = "error_tool" -> HandlerResult(TRUE, "raise", "Something went wrong")
      [] name = "sync_error_tool" -> HandlerResult(FALSE, "raise", "boom")
      [] name = "dict_tool" -> HandlerResult(TRUE, "dict", "\"value\": 1")
      [] name = "sync_dict_tool" -> HandlerResult(FALSE, "dict", "\"value\": 1")
      [] OTHER -> HandlerResult(FALSE, "other", "42")

\* json.dumps of a mapping with the given body.
JsonDumps(body) == "{" \o body \o "}"

HostTool(name, handler) == [name |-> name, handler |-> handler]

HostToolServer(name, tools) == [name |-> name, tools |-> tools]

HostToolsConfig ==
    << HostToolServer("test", << HostTool("echo", "echo_tool"),
                                 HostTool("error_tool", "error_tool") >>) >>

\* The (server, tool) pairs in the order HostToolDispatcher.__init__ visits them.
RECURSIVE ToolEntries(_)
ToolEntries(servers) ==
    IF servers = <<>> THEN <<>>
    ELSE LET s == Head(servers) IN
         [i \in 1..Len(s.tools) |-> [server |-> s.name, tool |-> s.tools[i]]]
             \o ToolEntries(Tail(servers))

NoTool == HostTool(None, None)

\* key = f"{server_name}:{tool_name}"
ToolKey(server_name, tool_name) == server_name \o ":" \o tool_name

\* self._tool_map after __init__ has visited the entries: each tool is put
\* under its qualified key, and under its bare name when that is no key yet.
RECURSIVE tool_map(_)
tool_map(entries) ==
    IF entries = <<>> THEN [k \in {} |-> NoTool]
    ELSE LET e == entries[Len(entries)]
             before == tool_map(SubSeq(entries, 1, Len(entries) - 1))
             keyed == (ToolKey(e.server, e.tool.name) :> e.tool) @@ before
         IN
         IF e.tool.name \in DOMAIN keyed THEN keyed
         ELSE (e.tool.name :> e.tool) @@ keyed

\* HostToolServer.get_tool(name): the first tool of the server with that
\* name.
HostToolServer_get_tool(server, name) ==
    LET hits == {i \in DOMAIN server.tools : server.tools[i].name = name} IN
    IF hits = {} THEN NoTool
    ELSE server.tools[CHOOSE i \in hits : \A j \in hits : i <= j]

get_tool(servers, server_name, tool_name) ==
    LET map == tool_map(ToolEntries(servers))
        key == ToolKey(server_name, tool_name) IN
    IF key \in DOMAIN map THEN map[key] ELSE NoTool

ToolResponse_HookKind(request_id, content, is_error) ==
    [type |-> "hook_response", request_id |-> request_id,
     decision |-> None, reason |-> None, updated_input |-> None,
     content |-> content, is_error |-> is_error]

ToolResponse(request_id, content, is_error) ==
    [type |-> "host_tool_response", request_id |-> request_id,
     decision |-> None, reason |-> None, updated_input |-> None,
     content |-> content, is_error |-> is_error]

NormalizeResult_NoJson(request_id, res) ==
    ToolResponse(request_id,
                 IF res.shape = "content" THEN res.value ELSE <<res.value>>, FALSE)

\* The try block of dispatch after the handler's value is there.
NormalizeResult(request_id, res) ==
    CASE res.shape = "content" -> ToolResponse(request_id, res.value, FALSE)
      [] res.shape = "dict" ->
             ToolResponse(request_id, <<JsonDumps(res.value)>>, FALSE)
      [] res.shape = "str" -> ToolResponse(request_id, <<res.value>>, FALSE)
      [] OTHER -> ToolResponse(request_id, <<res.value>>, FALSE)

HandlerError_NoMessage(request_id, message) ==
    ToolResponse(request_id, <<"Error executing tool">>, TRUE)

\* The except branch of dispatch.
HandlerError(request_id, message) ==
    ToolResponse(request_id, <<"Error executing tool: " \o message>>, TRUE)

\* HostToolDispatcher.dispatch with the handlers it invokes.
tool_run(servers, request) ==
    LET tool == get_tool(servers, request.server_name, request.tool_name) IN
    IF tool = NoTool
    THEN Dispatched(ToolResponse(request.request_id,
                                 <<"Error: Tool '" \o request.tool_name
                                   \o "' not found in server '"
                                   \o request.server_name \o "'">>, TRUE),
                    <<>>)
    ELSE LET called == Handler(tool.handler, request.tool_input)
             inv == <<Invocation(tool.handler, request.tool_input)>> IN
         IF ~called.coroutine /\ called.shape = "raise"
         THEN Dispatched(HandlerError(request.request_id, called.value), inv)
         ELSE \* result = await result, for a coroutine
              IF called.shape = "raise"
              THEN Dispatched(HandlerError(request.request_id, called.value), inv)
              ELSE Dispatched(NormalizeResult(request.request_id, called), inv)

dispatch(servers, request) == tool_run(servers, request).response

\* -------------------------------------------------- host: classification
\* A stdout line: type is the _type field; "none" is an object without
\* _type, "garbage" a line json.loads rejects.
NoLine ==
    [type |-> None, request_id |-> -1, n |-> 0, hook_event |-> None,
     server_name |-> None, tool_name |-> None, tool_input |-> None,
     is_error |-> FALSE]

parse_hook_message_KeepsEmpty(line) ==
    IF line.type = "garbage" THEN NoLine ELSE line

\* A line is named by what it decodes to: "empty" is blank after strip(),
\* "garbage" is not JSON, "none" is an object without _type, and any other
\* name is the object's _type.
parse_hook_message(line) ==
    IF line.type = "empty" THEN NoLine
    ELSE IF line.type = "garbage" THEN NoLine
    ELSE line
is_hook_request(message) == message.type = "hook_request"
is_host_tool_request(message) == message.type = "host_tool_request"
is_agent_message_UntypedOnly(message) == message.type = "none"

is_agent_message(message) == message.type = "message" \/ message.type = "none"

\* ------------------------------------------------ host: sandbox lifecycle
\* The options create_sandbox looks at: block_network, whether secrets are
\* given, whether env holds ANTHROPIC_API_KEY, and whether the local
\* environment holds it.
Options(block_network, secrets, env_key, local_key) ==
    [block_network |-> block_network, secrets |-> secrets,
     env_key |-> env_key, local_key |-> local_key, resume |-> None]

\* A Python value is truthy: not None and not the empty string.
Truthy(v) == v # None /\ v # ""

build_sdk_options_IgnoresResume(opts, resume) ==
    IF Truthy(opts.resume) THEN opts.resume ELSE None

\* sdk_options["resume"] as build_sdk_options sets it (None: not set): the
\* resume argument takes precedence over options.resume.
build_sdk_options(opts, resume) ==
    IF Truthy(resume) THEN resume
    ELSE IF Truthy(opts.resume) THEN opts.resume
    ELSE None

\* An error as its catcher sees it: its class and its __cause__.
Error(class, cause) == [error |-> class, cause |-> cause]

NoError == Error(None, None)

\* The error _validate_network_config raises (None: it returns).
validate_network_config(opts) ==
    IF opts.block_network THEN "NetworkConfigurationError" ELSE None

\* The error _validate_api_key_config raises (None: it returns).
validate_api_key_config(opts) ==
    IF opts.secrets \/ opts.env_key THEN None
    ELSE IF opts.local_key THEN None
    ELSE "MissingAPIKeyError"

\* The error _build_sandbox_kwargs raises: the validations come first.
build_sandbox_kwargs(opts) ==
    IF validate_network_config(opts) # None THEN validate_network_config(opts)
    ELSE validate_api_key_config(opts)

\* create_sandbox: the app lookup, the kwargs and Sandbox.create, all inside
\* one try whose "except Exception" raises SandboxCreationError from the
\* exception caught.  lookup_fails and create_fails are the platform's.
create_sandbox(opts, lookup_fails, create_fails) ==
    LET e == IF lookup_fails THEN "modal.exception.Error"
             ELSE IF build_sandbox_kwargs(opts) # None
             THEN build_sandbox_kwargs(opts)
             ELSE IF create_fails THEN "modal.exception.Error"
             ELSE None IN
    IF e = None
    THEN [raised |-> NoError, sandbox |-> "sandbox", platform |-> "running"]
    ELSE [raised |-> Error("SandboxCreationError", e), sandbox |-> None,
          platform |-> "none"]

\* Sandbox.terminate on the platform: it raises when the sandbox is gone.
PlatformTerminate(pf) == [platform |-> "terminated", raises |-> pf # "running"]

terminate_Propagates(sb, pf) ==
    IF sb # None
    THEN [sandbox |-> None, platform |-> PlatformTerminate(pf).platform,
          raised |-> PlatformTerminate(pf).raises, called |-> 1]
    ELSE [sandbox |-> sb, platform |-> pf, raised |-> FALSE, called |-> 0]

\* SandboxManager.terminate: with a sandbox, terminate it, swallow what that
\* raises and forget the sandbox; without one, nothing.
terminate(sb, pf) ==
    IF sb # None
    THEN [sandbox |-> None, platform |-> PlatformTerminate(pf).platform,
          raised |-> FALSE, called |-> 1]
    ELSE [sandbox |-> sb, platform |-> pf, raised |-> FALSE, called |-> 0]

\* The way out of query(): __aexit__ when the sandbox was entered
\* (commit_volumes swallows its errors, then terminate), and the terminate
\* of the finally clause.  An error of the cleanup replaces the error on
\* its way out.
Cleanup(entered, sb, pf, leaving) ==
    LET t1 == IF entered THEN terminate(sb, pf)
              ELSE [sandbox |-> sb, platform |-> pf, raised |-> FALSE,
                    called |-> 0]
        t2 == terminate(t1.sandbox, t1.platform) IN
    [sandbox |-> t2.sandbox, platform |-> t2.platform,
     called |-> t1.called + t2.called,
     raised |-> IF t1.raised \/ t2.raised THEN Error("modal.exception.Error", None)
                ELSE leaving]

\* ------------------------------------------------- host: how a run ends
\* None where an exit code is expected: process.returncode of a process
\* that has not ended, exit_code of an error that carries none.
NoExitCode == -1

\* The generator of execute_agent: running, returned, or ended by an error
\* of the named class with its exit_code, its message and its __cause__.
Outcome(state, error, exit_code, message, cause) ==
    [state |-> state, error |-> error, exit_code |-> exit_code,
     message |-> message, cause |-> cause]

Running == Outcome("running", None, NoExitCode, "", None)

Completed == Outcome("completed", None, NoExitCode, "", None)

CLINotInstalledError ==
    Outcome("raised", "CLINotInstalledError", NoExitCode,
            "claude-agent-sdk package not found. Make sure 'claude-agent-sdk' "
            \o "is installed in the sandbox image.", None)

AgentExecutionError(message, exit_code) ==
    Outcome("raised", "AgentExecutionError", exit_code, message, None)

SandboxTimeoutError(e) ==
    Outcome("raised", "SandboxTimeoutError", NoExitCode,
            "Sandbox execution timed out: " \o e, e)

SandboxTerminatedError_AsTimeout(e) ==
    Outcome("raised", "SandboxTimeoutError", NoExitCode,
            "Sandbox execution timed out: " \o e, e)

SandboxTerminatedError(e) ==
    Outcome("raised", "SandboxTerminatedError", NoExitCode,
            "Sandbox was terminated: " \o e, e)

\* "ModuleNotFoundError" in stderr_content and "claude_agent_sdk" in
\* stderr_content.
IsModuleNotFound(stderr_content) ==
    /\ Contains(stderr_content, "ModuleNotFoundError")
    /\ Contains(stderr_content, "claude_agent_sdk")

\* process.stderr.read() on a stream that an earlier read() has already
\* taken to EOF: what it returns is the platform library's choice, the
\* text again or nothing.
StderrReadAgain(text) == {text, ""}

\* What follows "exit_code = process.returncode": first is the text read
\* under "if exit_code == 1", stderr_content the text of the read before
\* "if exit_code != 0".
ExitOutcome(exit_code, first, stderr_content) ==
    IF exit_code = 1 /\ IsModuleNotFound(first)
    THEN CLINotInstalledError
    ELSE IF exit_code # 0
    THEN AgentExecutionError("Agent execution failed with exit code "
                             \o ToString(exit_code) \o ": " \o stderr_content,
                             exit_code)
    ELSE Completed

\* The texts read by the reads of process.stderr: one read unless the exit
\* code is 1, where the second read follows the first.
StderrContents == IF returncode = 1 THEN StderrReadAgain(stderr) ELSE {stderr}

\* The except clauses around both paths.
ExceptClause(e) ==
    IF e = "TimeoutError" THEN SandboxTimeoutError(e)
    ELSE SandboxTerminatedError(e)

\* ------------------------------------------------------------ sandbox side
NoResp ==
    [type |-> None, request_id |-> -1, decision |-> None, reason |-> None,
     updated_input |-> None, content |-> <<>>, is_error |-> FALSE]

NoResult ==
    [decision |-> None, reason |-> None, updated_input |-> None,
     content |-> <<>>, is_error |-> FALSE]

NoHookOut == [permissionDecision |-> None, reason |-> None, toolInput |-> None]

HookProxySteps_EmitFirst == <<"emit", "register", "wait">>

\* Statement order of HookProxy.pre_tool_use up to its wait.
HookProxySteps == <<"register", "emit", "wait">>

\* Statement order of HostToolProxy.call_tool up to its wait.
HostToolProxySteps == <<"register", "emit", "sleep", "wait">>

Steps(c) == IF kind[c] = "hook" THEN HookProxySteps ELSE HostToolProxySteps

\* The statement call c executes next.
CurStep(c) ==
    IF pc[c] = 0 THEN "idle"
    ELSE IF pc[c] > Len(Steps(c)) THEN "done"
    ELSE Steps(c)[pc[c]]

InProgress(c) == CurStep(c) \notin {"idle", "done"}

\* What the agent asks for: (tool_name, tool_input) of a tool use that
\* fires the PreToolUse hook, and of a call of a host tool of server "test".
HookCallInputs == {<<"Bash", "rm -rf /">>, <<"Read", "/etc/passwd">>}
ToolCallInputs == {<<"echo", "hello world">>, <<"error_tool", "x">>}

RequestLine(c) ==
    IF kind[c] = "hook"
    THEN [type |-> "hook_request", request_id |-> c, n |-> 0,
          hook_event |-> "PreToolUse", server_name |-> None,
          tool_name |-> callTool[c], tool_input |-> callInput[c],
          is_error |-> FALSE]
    ELSE [type |-> "host_tool_request", request_id |-> c, n |-> 0,
          hook_event |-> None, server_name |-> "test",
          tool_name |-> callTool[c], tool_input |-> callInput[c],
          is_error |-> FALSE]

\* request_id of the PostToolUse notification of call c: one more fresh uuid.
PostId(c) == NCalls + c

post_tool_use_hook_FromRuntime(tool_failed) == tool_failed

\* The is_error post_tool_use_hook hands to HookProxy.post_tool_use for a
\* tool run that failed or not: "is_error = False".
post_tool_use_hook(tool_failed) == FALSE

\* The line HookProxy.post_tool_use emits.
PostLine(c, tool_input, is_error) ==
    [type |-> "hook_request", request_id |-> PostId(c), n |-> 0,
     hook_event |-> "PostToolUse", server_name |-> None,
     tool_name |-> callTool[c], tool_input |-> tool_input,
     is_error |-> is_error]

pre_tool_use_result_AnyKind(response) ==
    IF response = NoResp
    THEN [NoResult EXCEPT !.decision = "allow"]
    ELSE [NoResult EXCEPT !.decision = response.decision,
                          !.reason = response.reason,
                          !.updated_input = response.updated_input]

pre_tool_use_result_FailClosed(response) ==
    IF response = NoResp \/ response.type # "hook_response"
    THEN [NoResult EXCEPT !.decision = "deny"]
    ELSE [NoResult EXCEPT !.decision = response.decision,
                          !.reason = response.reason,
                          !.updated_input = response.updated_input]

\* HookProxy.pre_tool_use from "if response is None" on.
pre_tool_use_result(response) ==
    IF response = NoResp
    THEN [NoResult EXCEPT !.decision = "allow"]
    ELSE IF response.type # "hook_response"
    THEN [NoResult EXCEPT !.decision = "allow"]
    ELSE [NoResult EXCEPT !.decision = response.decision,
                          !.reason = response.reason,
                          !.updated_input = response.updated_input]

call_tool_result_EmptyOnTimeout(response) ==
    IF response = NoResp \/ response.type # "host_tool_response"
    THEN NoResult
    ELSE [NoResult EXCEPT !.content = response.content,
                          !.is_error = response.is_error]

\* HostToolProxy.call_tool from "if response is None" on.
call_tool_result(response) ==
    IF response = NoResp
    THEN [NoResult EXCEPT !.content = <<"Timeout waiting for host tool response">>,
                          !.is_error = TRUE]
    ELSE IF response.type # "host_tool_response"
    THEN [NoResult EXCEPT !.content = <<"Invalid response type from host: ",
                                        response.type>>,
                          !.is_error = TRUE]
    ELSE [NoResult EXCEPT !.content = response.content,
                          !.is_error = response.is_error]

\* timeout of HookProxy.__init__ when none is passed, and the timeout main
\* passes to HostToolProxy, in seconds.
HookProxyTimeout == 30
HostToolProxyTimeout == 60

proxy_timeout_FromHooks(k, hooks) ==
    IF k = "hook" THEN hooks.timeout ELSE HostToolProxyTimeout

\* self.timeout of the proxy main builds for a call of kind k: the options
\* of the process carry _enable_hooks only, and HookProxy is built from
\* session_id and cwd.
proxy_timeout(k, hooks) ==
    IF k = "hook" THEN HookProxyTimeout ELSE HostToolProxyTimeout

ResultOf(c, response) ==
    IF kind[c] = "hook" THEN pre_tool_use_result(response)
    ELSE call_tool_result(response)

pre_tool_use_hook_IgnoresDeny(res) ==
    [permissionDecision |-> "none", reason |-> None, toolInput |-> res.updated_input]

pre_tool_use_hook_DenyForwardsInput(res) ==
    [permissionDecision |-> IF res.decision = "deny" THEN "deny" ELSE "none",
     reason |-> IF res.decision = "deny" THEN "Blocked by host hook" ELSE None,
     toolInput |-> res.updated_input]

\* pre_tool_use_hook of create_hooks_dict, after the proxy call returned.
pre_tool_use_hook(res) ==
    IF res.decision = "deny"
    THEN [permissionDecision |-> "deny",
          reason |-> IF res.reason = None THEN "Blocked by host hook" ELSE res.reason,
          toolInput |-> None]
    ELSE IF res.updated_input # None
    THEN [permissionDecision |-> "none", reason |-> None,
          toolInput |-> res.updated_input]
    ELSE [permissionDecision |-> "none", reason |-> None, toolInput |-> None]

\* request_id = str(uuid.uuid4()): calls take their ids in order.
CallStart(c) ==
    /\ pc[c] = 0
    /\ lock_pc["loop"].at = "idle"
    /\ ~exited
    /\ IF c = 1 THEN TRUE ELSE pc[c - 1] > 0
    /\ \E k \in features :
         /\ kind' = [kind EXCEPT ![c] = IF k = "hooks" THEN "hook" ELSE "tool"]
         /\ \E ti \in (IF k = "hooks" THEN HookCallInputs ELSE ToolCallInputs) :
              /\ callTool' = [callTool EXCEPT ![c] = ti[1]]
              /\ callInput' = [callInput EXCEPT ![c] = ti[2]]
    /\ pc' = [pc EXCEPT ![c] = 1]
    /\ UNCHANGED <<features, host_hooks, host_tools, response_events, evset,
                   response_data, loopq, result, got, timedOut, waited,
                   hookOut, executed, failed, stdout, stdin, nLines, exited,
                   hostCur, lineClass, nRead, yielded, hostResp, hostInvoked,
                   postSeen, recvLog, nInject, returncode, stderr, outcome,
                   options, sandbox, platform, nTerminate, qpc, qerr, client,
                   lineData, stdout_lock, emit_pc, written, response_lock,
                   lock_pc>>

\* register_response_event(request_id)
Register(c) ==
    /\ CurStep(c) = "register"
    /\ response_events' = response_events \cup {c}
    /\ pc' = [pc EXCEPT ![c] = @ + 1]
    /\ UNCHANGED <<features, host_hooks, host_tools, kind, callTool,
                   callInput, evset, response_data, loopq, result, got,
                   timedOut, waited, hookOut, executed, failed, stdout,
                   stdin, nLines, exited, hostCur, lineClass, nRead, yielded,
                   hostResp, hostInvoked, postSeen, recvLog, nInject,
                   returncode, stderr, outcome, options, sandbox, platform,
                   nTerminate, qpc, qerr, client, lineData, stdout_lock,
                   emit_pc, written, response_lock, lock_pc>>

\* emit_message("hook_request" | "host_tool_request", ...): one whole line
\* is written and flushed under _stdout_lock.
EmitRequest(c) ==
    /\ CurStep(c) = "emit"
    /\ lock_pc["loop"].at = "idle"
    /\ stdout' = Append(stdout, RequestLine(c))
    /\ pc' = [pc EXCEPT ![c] = @ + 1]
    /\ UNCHANGED <<features, host_hooks, host_tools, kind, callTool,
                   callInput, response_events, evset, response_data, loopq,
                   result, got, timedOut, waited, hookOut, executed, failed,
                   stdin, nLines, exited, hostCur, lineClass, nRead, yielded,
                   hostResp, hostInvoked, postSeen, recvLog, nInject,
                   returncode, stderr, outcome, options, sandbox, platform,
                   nTerminate, qpc, qerr, client, lineData, stdout_lock,
                   emit_pc, written, response_lock, lock_pc>>

\* await asyncio.sleep(0.1) of call_tool
Sleep(c) ==
    /\ CurStep(c) = "sleep"
    /\ lock_pc["loop"].at = "idle"
    /\ pc' = [pc EXCEPT ![c] = @ + 1]
    /\ UNCHANGED <<features, host_hooks, host_tools, kind, callTool,
                   callInput, response_events, evset, response_data, loopq,
                   result, got, timedOut, waited, hookOut, executed, failed,
                   stdout, stdin, nLines, exited, hostCur, lineClass, nRead,
                   yielded, hostResp, hostInvoked, postSeen, recvLog,
                   nInject, returncode, stderr, outcome, options, sandbox,
                   platform, nTerminate, qpc, qerr, client, lineData,
                   stdout_lock, emit_pc, written, response_lock, lock_pc>>

\* get_response(request_id): pops the waiter and the stored response.
get_response(c) ==
    /\ response_events' = response_events \ {c}
    /\ response_data' = [response_data EXCEPT ![c] = NoResp]

\* wait_for(event.wait()) returns: the event is set; get_response, then the
\* rest of the call up to its return.
WaitReturn(c) ==
    /\ CurStep(c) = "wait"
    /\ c \in evset
    /\ get_response(c)
    /\ got' = [got EXCEPT ![c] = response_data[c]]
    /\ result' = [result EXCEPT ![c] = ResultOf(c, response_data[c])]
    /\ hookOut' = [hookOut EXCEPT ![c] =
                     IF kind[c] = "hook"
                     THEN pre_tool_use_hook(ResultOf(c, response_data[c]))
                     ELSE @]
    /\ evset' = evset \ {c}
    /\ pc' = [pc EXCEPT ![c] = Len(Steps(c)) + 1]
    /\ UNCHANGED <<features, host_hooks, host_tools, kind, callTool,
                   callInput, loopq, timedOut, waited, executed, failed,
                   stdout, stdin, nLines, exited, hostCur, lineClass, nRead,
                   yielded, hostResp, hostInvoked, postSeen, recvLog,
                   nInject, returncode, stderr, outcome, options, sandbox,
                   platform, nTerminate, qpc, qerr, client, lineData,
                   stdout_lock, emit_pc, written, response_lock, lock_pc>>

Timeout_HooksOnly(c) ==
    /\ CurStep(c) = "wait"
    /\ kind[c] = "hook"
    /\ c \notin evset
    /\ response_events' = response_events \ {c}
    /\ response_data' = [response_data EXCEPT ![c] = NoResp]
    /\ timedOut' = timedOut \cup {c}
    /\ waited' = [waited EXCEPT ![c] = proxy_timeout(kind[c], host_hooks)]
    /\ result' = [result EXCEPT ![c] = ResultOf(c, NoResp)]
    /\ hookOut' = [hookOut EXCEPT ![c] = pre_tool_use_hook(ResultOf(c, NoResp))]
    /\ pc' = [pc EXCEPT ![c] = Len(Steps(c)) + 1]
    /\ UNCHANGED <<features, host_hooks, host_tools, kind, callTool,
                   callInput, evset, loopq, got, executed, failed, stdout,
                   stdin, nLines, exited, hostCur, lineClass, nRead, yielded,
                   hostResp, hostInvoked, postSeen, recvLog, nInject,
                   returncode, stderr, outcome, options, sandbox, platform,
                   nTerminate, qpc, qerr, client, lineData, stdout_lock,
                   emit_pc, written, response_lock, lock_pc>>

\* wait_for raises asyncio.TimeoutError: the event was not set within
\* self.timeout seconds; the except branch pops both tables and the call
\* returns its default.
Timeout(c) ==
    /\ CurStep(c) = "wait"
    /\ c \notin evset
    /\ response_events' = response_events \ {c}
    /\ response_data' = [response_data EXCEPT ![c] = NoResp]
    /\ timedOut' = timedOut \cup {c}
    /\ waited' = [waited EXCEPT ![c] = proxy_timeout(kind[c], host_hooks)]
    /\ result' = [result EXCEPT ![c] = ResultOf(c, NoResp)]
    /\ hookOut' = [hookOut EXCEPT ![c] =
                     IF kind[c] = "hook"
                     THEN pre_tool_use_hook(ResultOf(c, NoResp))
                     ELSE @]
    /\ pc' = [pc EXCEPT ![c] = Len(Steps(c)) + 1]
    /\ UNCHANGED <<features, host_hooks, host_tools, kind, callTool,
                   callInput, evset, loopq, got, executed, failed, stdout,
                   stdin, nLines, exited, hostCur, lineClass, nRead, yielded,
                   hostResp, hostInvoked, postSeen, recvLog, nInject,
                   returncode, stderr, outcome, options, sandbox, platform,
                   nTerminate, qpc, qerr, client, lineData, stdout_lock,
                   emit_pc, written, response_lock, lock_pc>>

\* The agent runtime runs the tool of a hook call the hook did not deny; the
\* tool run fails or succeeds, and post_tool_use_hook ->
\* HookProxy.post_tool_use emits the notification: no waiter is registered
\* and nothing is awaited.
ToolExecute(c) ==
    /\ kind[c] = "hook"
    /\ CurStep(c) = "done"
    /\ hookOut[c].permissionDecision # "deny"
    /\ c \notin executed
    /\ ~exited
    /\ executed' = executed \cup {c}
    /\ stdout' = Append(stdout,
                        PostLine(c,
                                 IF hookOut[c].toolInput # None
                                 THEN hookOut[c].toolInput
                                 ELSE callInput[c],
                                 post_tool_use_hook(c \in failed)))
    /\ UNCHANGED <<features, host_hooks, host_tools, kind, callTool,
                   callInput, pc, response_events, evset, response_data,
                   loopq, result, got, timedOut, waited, hookOut, failed,
                   stdin, nLines, exited, hostCur, lineClass, nRead, yielded,
                   hostResp, hostInvoked, postSeen, recvLog, nInject,
                   returncode, stderr, outcome, options, sandbox, platform,
                   nTerminate, qpc, qerr, client, lineData, stdout_lock,
                   emit_pc, written, response_lock, lock_pc>>

\* Kinds of line the process writes besides requests: emit_agent_message
\* writes _type "message"; anything else printed to stdout is an object
\* without _type, an object with another _type, or no JSON at all.
LineClasses == {"message", "other", "garbage"}

OutputLine(cls, n) ==
    [type |-> cls, request_id |-> -1, n |-> n, hook_event |-> None,
     server_name |-> None, tool_name |-> None, tool_input |-> None,
     is_error |-> FALSE]

\* The fields of an agent message that the client looks at: subtype and
\* session_id (None: the message has no such key).
MessageData(subtype, session_id) ==
    [subtype |-> subtype, session_id |-> session_id]

\* emit_agent_message(message), or another writer of the process's stdout.
EmitLine(cls) ==
    /\ platform = "running"
    /\ ~exited
    /\ nLines < MaxLines
    /\ nLines' = nLines + 1
    /\ lineClass' = Append(lineClass, cls)
    /\ lineData' = Append(lineData, MessageData(None, None))
    /\ stdout' = Append(stdout, OutputLine(cls, nLines + 1))
    /\ UNCHANGED <<features, host_hooks, host_tools, kind, callTool,
                   callInput, pc, response_events, evset, response_data,
                   loopq, result, got, timedOut, waited, hookOut, executed,
                   failed, stdin, exited, hostCur, nRead, yielded, hostResp,
                   hostInvoked, postSeen, recvLog, nInject, returncode,
                   stderr, outcome, options, sandbox, platform, nTerminate,
                   qpc, qerr, client, stdout_lock, emit_pc, written,
                   response_lock, lock_pc>>

\* main() returns: the agent's turn is over and no hook or tool call is open.
SandboxExit ==
    /\ ~exited
    /\ \A c \in Calls : ~InProgress(c)
    /\ exited' = TRUE
    /\ returncode' = 0
    /\ UNCHANGED <<features, host_hooks, host_tools, kind, callTool,
                   callInput, pc, response_events, evset, response_data,
                   loopq, result, got, timedOut, waited, hookOut, executed,
                   failed, stdout, stdin, nLines, hostCur, lineClass, nRead,
                   yielded, hostResp, hostInvoked, postSeen, recvLog,
                   nInject, stderr, outcome, options, sandbox, platform,
                   nTerminate, qpc, qerr, client, lineData, stdout_lock,
                   emit_pc, written, response_lock, lock_pc>>

\* ------------------------------------------------- sandbox: stdin reader
ReaderKey_ArrivalOrder(response) ==
    IF response_events # {}
    THEN CHOOSE c \in response_events : \A d \in response_events : c <= d
    ELSE response.request_id

\* The key under which _reader_loop files a response.
ReaderKey(response) == response.request_id

\* One iteration of StdinResponseReader._reader_loop: read a line, and for
\* a JSON object with a request_id store it under _response_lock and hand
\* event.set to the loop when a waiter is registered.
ReaderStore ==
    /\ ~exited
    /\ stdin # <<>>
    /\ stdin' = Tail(stdin)
    /\ LET response == Head(stdin)
           key == ReaderKey(response) IN
       IF response.type = "garbage" \/ response.request_id = -1
       THEN UNCHANGED <<response_data, loopq, recvLog>>
       ELSE /\ response_data' = [response_data EXCEPT ![key] = response]
            /\ loopq' = IF key \in response_events THEN loopq \cup {key} ELSE loopq
            /\ recvLog' = Append(recvLog, response)
    /\ UNCHANGED <<features, host_hooks, host_tools, kind, callTool,
                   callInput, pc, response_events, evset, result, got,
                   timedOut, waited, hookOut, executed, failed, stdout,
                   nLines, exited, hostCur, lineClass, nRead, yielded,
                   hostResp, hostInvoked, postSeen, nInject, returncode,
                   stderr, outcome, options, sandbox, platform, nTerminate,
                   qpc, qerr, client, lineData, stdout_lock, emit_pc,
                   written, response_lock, lock_pc>>

\* The event loop runs a handed-over event.set.
LoopRunSet(c) ==
    /\ c \in loopq
    /\ lock_pc["loop"].at = "idle"
    /\ loopq' = loopq \ {c}
    /\ evset' = IF InProgress(c) THEN evset \cup {c} ELSE evset
    /\ UNCHANGED <<features, host_hooks, host_tools, kind, callTool,
                   callInput, pc, response_events, response_data, result,
                   got, timedOut, waited, hookOut, executed, failed, stdout,
                   stdin, nLines, exited, hostCur, lineClass, nRead, yielded,
                   hostResp, hostInvoked, postSeen, recvLog, nInject,
                   returncode, stderr, outcome, options, sandbox, platform,
                   nTerminate, qpc, qerr, client, lineData, stdout_lock,
                   emit_pc, written, response_lock, lock_pc>>

\* ------------------------------------------------------------- host loop
parse_stream_message(line) ==
    IF line.type = "empty" THEN NoLine
    ELSE IF line.type = "garbage" THEN NoLine
    ELSE line

\* A yielded message: n identifies the line, type is the _type it still has
\* ("none": it has none).
Yielded(n, type) == [n |-> n, type |-> type]

\* The body of "async for line in process.stdout" up to the first await or
\* yield: classify the line; a request starts its dispatch, which the loop
\* awaits before it reads again.
HostReadLine ==
    /\ qpc = "iterating"
    /\ features # {}
    /\ outcome = Running
    /\ hostCur = NoLine
    /\ stdout # <<>>
    /\ stdout' = Tail(stdout)
    /\ nRead' = IF Head(stdout).n > 0 THEN nRead + 1 ELSE nRead
    /\ LET message == parse_hook_message(Head(stdout)) IN
       IF message = NoLine
       THEN UNCHANGED <<hostCur, yielded>>
       ELSE IF is_hook_request(message) /\ "hooks" \in features
       THEN /\ hostCur' = IF message.hook_event \in {"PreToolUse", "PostToolUse"}
                          THEN message ELSE NoLine
            /\ UNCHANGED yielded
       ELSE IF is_host_tool_request(message) /\ "tools" \in features
       THEN /\ hostCur' = message
            /\ UNCHANGED yielded
       ELSE IF is_agent_message(message)
       THEN /\ yielded' = Append(yielded, Yielded(message.n, "none"))
            /\ UNCHANGED hostCur
       ELSE UNCHANGED <<hostCur, yielded>>
    /\ UNCHANGED <<features, host_hooks, host_tools, kind, callTool,
                   callInput, pc, response_events, evset, response_data,
                   loopq, result, got, timedOut, waited, hookOut, executed,
                   failed, stdin, nLines, exited, lineClass, hostResp,
                   hostInvoked, postSeen, recvLog, nInject, returncode,
                   stderr, outcome, options, sandbox, platform, nTerminate,
                   qpc, qerr, client, lineData, stdout_lock, emit_pc,
                   written, response_lock, lock_pc>>

HostFinishDispatch_AnswersPost ==
    /\ qpc = "iterating"
    /\ outcome = Running
    /\ hostCur # NoLine
    /\ hostCur' = NoLine
    /\ IF is_hook_request(hostCur) /\ hostCur.hook_event = "PostToolUse"
       THEN /\ postSeen' = Append(postSeen,
                                  <<hostCur.request_id,
                                    dispatch_post_tool_use(host_hooks, hostCur),
                                    PostToolUseHookInput(hostCur)>>)
            /\ stdin' = Append(stdin,
                               HookResponse(hostCur.request_id, "allow",
                                            None, None))
            /\ UNCHANGED <<hostResp, hostInvoked>>
       ELSE LET run == IF is_hook_request(hostCur)
                       THEN pre_tool_use_run(host_hooks, hostCur)
                       ELSE tool_run(host_tools, hostCur) IN
            /\ stdin' = Append(stdin, run.response)
            /\ hostResp' = [hostResp EXCEPT ![hostCur.request_id] = run.response]
            /\ hostInvoked' = [hostInvoked EXCEPT
                                 ![hostCur.request_id] = run.invoked]
            /\ UNCHANGED postSeen
    /\ UNCHANGED <<features, host_hooks, host_tools, kind, callTool,
                   callInput, pc, response_events, evset, response_data,
                   loopq, result, got, timedOut, waited, hookOut, executed,
                   failed, stdout, nLines, exited, lineClass, nRead, yielded,
                   recvLog, nInject, returncode, stderr, outcome, options,
                   sandbox, platform, nTerminate, qpc, qerr, client,
                   lineData, stdout_lock, emit_pc, written, response_lock,
                   lock_pc>>

\* The awaited dispatch completes: the response of a PreToolUse or host-tool
\* request is written to the process's stdin; PostToolUse writes nothing.
HostFinishDispatch ==
    /\ qpc = "iterating"
    /\ outcome = Running
    /\ hostCur # NoLine
    /\ hostCur' = NoLine
    /\ IF is_hook_request(hostCur) /\ hostCur.hook_event = "PostToolUse"
       THEN /\ postSeen' = Append(postSeen,
                                  <<hostCur.request_id,
                                    dispatch_post_tool_use(host_hooks, hostCur),
                                    PostToolUseHookInput(hostCur)>>)
            /\ UNCHANGED <<stdin, hostResp, hostInvoked>>
       ELSE LET run == IF is_hook_request(hostCur)
                       THEN pre_tool_use_run(host_hooks, hostCur)
                       ELSE tool_run(host_tools, hostCur) IN
            /\ stdin' = Append(stdin, run.response)
            /\ hostResp' = [hostResp EXCEPT ![hostCur.request_id] = run.response]
            /\ hostInvoked' = [hostInvoked EXCEPT
                                 ![hostCur.request_id] = run.invoked]
            /\ UNCHANGED postSeen
    /\ UNCHANGED <<features, host_hooks, host_tools, kind, callTool,
                   callInput, pc, response_events, evset, response_data,
                   loopq, result, got, timedOut, waited, hookOut, executed,
                   failed, stdout, nLines, exited, lineClass, nRead, yielded,
                   recvLog, nInject, returncode, stderr, outcome, options,
                   sandbox, platform, nTerminate, qpc, qerr, client,
                   lineData, stdout_lock, emit_pc, written, response_lock,
                   lock_pc>>

\* execute_agent without hooks and host tools: after process.wait the whole
\* stdout is split into lines and every line that parses is yielded, with
\* _type removed when it is "message".
HostPlainRead ==
    /\ qpc = "iterating"
    /\ features = {}
    /\ outcome = Running
    /\ exited
    /\ ~(returncode = 1 /\ IsModuleNotFound(stderr))
    /\ stdout # <<>>
    /\ stdout' = Tail(stdout)
    /\ nRead' = IF Head(stdout).n > 0 THEN nRead + 1 ELSE nRead
    /\ LET parsed_msg == parse_stream_message(Head(stdout)) IN
       yielded' = IF parsed_msg = NoLine THEN yielded
                  ELSE Append(yielded,
                              Yielded(parsed_msg.n,
                                      IF parsed_msg.type = "message" THEN "none"
                                      ELSE parsed_msg.type))
    /\ UNCHANGED <<features, host_hooks, host_tools, kind, callTool,
                   callInput, pc, response_events, evset, response_data,
                   loopq, result, got, timedOut, waited, hookOut, executed,
                   failed, stdin, nLines, exited, hostCur, lineClass,
                   hostResp, hostInvoked, postSeen, recvLog, nInject,
                   returncode, stderr, outcome, options, sandbox, platform,
                   nTerminate, qpc, qerr, client, lineData, stdout_lock,
                   emit_pc, written, response_lock, lock_pc>>

\* The codes and stderr texts a process of the model ends with.
ExitCodes == {0, 1, 2}

StderrTexts ==
    {"ValueError: bad prompt",
     "ModuleNotFoundError: No module named 'claude_agent_sdk'",
     "ModuleNotFoundError: No module named 'yaml'",
     "ImportError: cannot import name 'query' from 'claude_agent_sdk'"}

\* The process ends, by main() returning or by an error, with an exit code
\* and what it wrote to stderr.
ProcessExit(code, text) ==
    /\ platform = "running"
    /\ ~exited
    /\ \A c \in Calls : ~InProgress(c)
    /\ exited' = TRUE
    /\ returncode' = code
    /\ stderr' = text
    /\ UNCHANGED <<features, host_hooks, host_tools, kind, callTool,
                   callInput, pc, response_events, evset, response_data,
                   loopq, result, got, timedOut, waited, hookOut, executed,
                   failed, stdout, stdin, nLines, hostCur, lineClass, nRead,
                   yielded, hostResp, hostInvoked, postSeen, recvLog,
                   nInject, outcome, options, sandbox, platform, nTerminate,
                   qpc, qerr, client, lineData, stdout_lock, emit_pc,
                   written, response_lock, lock_pc>>

\* _execute_with_host_features after "async for line in process.stdout" has
\* reached EOF: process.wait, the exit code and the reads of stderr.
HostStreamEnd ==
    /\ qpc = "iterating"
    /\ features # {}
    /\ outcome = Running
    /\ exited
    /\ stdout = <<>>
    /\ hostCur = NoLine
    /\ \E stderr_content \in StderrContents :
         outcome' = ExitOutcome(returncode, stderr, stderr_content)
    /\ UNCHANGED <<features, host_hooks, host_tools, kind, callTool,
                   callInput, pc, response_events, evset, response_data,
                   loopq, result, got, timedOut, waited, hookOut, executed,
                   failed, stdout, stdin, nLines, exited, hostCur, lineClass,
                   nRead, yielded, hostResp, hostInvoked, postSeen, recvLog,
                   nInject, returncode, stderr, options, sandbox, platform,
                   nTerminate, qpc, qerr, client, lineData, stdout_lock,
                   emit_pc, written, response_lock, lock_pc>>

\* execute_agent without hooks and host tools: CLINotInstalledError is
\* raised after process.wait, before stdout is read; the exit code is looked
\* at again after the last line has been yielded.
HostPlainEnd ==
    /\ qpc = "iterating"
    /\ features = {}
    /\ outcome = Running
    /\ exited
    /\ IF returncode = 1 /\ IsModuleNotFound(stderr) THEN TRUE
       ELSE stdout = <<>>
    /\ \E stderr_content \in StderrContents :
         outcome' = ExitOutcome(returncode, stderr, stderr_content)
    /\ UNCHANGED <<features, host_hooks, host_tools, kind, callTool,
                   callInput, pc, response_events, evset, response_data,
                   loopq, result, got, timedOut, waited, hookOut, executed,
                   failed, stdout, stdin, nLines, exited, hostCur, lineClass,
                   nRead, yielded, hostResp, hostInvoked, postSeen, recvLog,
                   nInject, returncode, stderr, options, sandbox, platform,
                   nTerminate, qpc, qerr, client, lineData, stdout_lock,
                   emit_pc, written, response_lock, lock_pc>>

\* The exceptions of the platform the except clauses name.
PlatformExceptions == {"TimeoutError", "modal.exception.SandboxTerminatedError"}

\* An awaited operation on the sandbox raises inside the try block.
PlatformRaises(e) ==
    /\ qpc = "iterating"
    /\ outcome = Running
    /\ platform = "running"
    /\ outcome' = ExceptClause(e)
    /\ platform' = "terminated"
    /\ UNCHANGED <<features, host_hooks, host_tools, kind, callTool,
                   callInput, pc, response_events, evset, response_data,
                   loopq, result, got, timedOut, waited, hookOut, executed,
                   failed, stdout, stdin, nLines, exited, hostCur, lineClass,
                   nRead, yielded, hostResp, hostInvoked, postSeen, recvLog,
                   nInject, returncode, stderr, options, sandbox, nTerminate,
                   qpc, qerr, client, lineData, stdout_lock, emit_pc,
                   written, response_lock, lock_pc>>

\* --------------------------------------------------------------- query()
\* The caller starts iterating query(): "async with manager" enters by
\* create_sandbox; when that raises, the finally clause runs and the error
\* reaches the caller.
QueryEnter ==
    /\ qpc = "start"
    /\ \E lookup_fails \in BOOLEAN, create_fails \in BOOLEAN :
         LET made == create_sandbox(options, lookup_fails, create_fails) IN
         IF made.raised = NoError
         THEN /\ sandbox' = made.sandbox
              /\ platform' = made.platform
              /\ qpc' = "iterating"
              /\ UNCHANGED <<qerr, nTerminate>>
         ELSE LET out == Cleanup(FALSE, made.sandbox, made.platform,
                                 made.raised) IN
              /\ sandbox' = out.sandbox
              /\ platform' = out.platform
              /\ nTerminate' = nTerminate + out.called
              /\ qerr' = out.raised
              /\ qpc' = "done"
    /\ UNCHANGED <<features, host_hooks, host_tools, kind, callTool,
                   callInput, pc, response_events, evset, response_data,
                   loopq, result, got, timedOut, waited, hookOut, executed,
                   failed, stdout, stdin, nLines, exited, hostCur, lineClass,
                   nRead, yielded, hostResp, hostInvoked, postSeen, recvLog,
                   nInject, returncode, stderr, outcome, options, client,
                   lineData, stdout_lock, emit_pc, written, response_lock,
                   lock_pc>>

\* execute_agent has returned or raised: query() leaves "async with" and
\* its finally clause, and returns or raises the same error.
QueryExit ==
    /\ qpc = "iterating"
    /\ outcome.state \in {"completed", "raised"}
    /\ LET out == Cleanup(TRUE, sandbox, platform,
                          Error(outcome.error, outcome.cause)) IN
       /\ sandbox' = out.sandbox
       /\ platform' = out.platform
       /\ nTerminate' = nTerminate + out.called
       /\ qerr' = out.raised
    /\ qpc' = "done"
    /\ UNCHANGED <<features, host_hooks, host_tools, kind, callTool,
                   callInput, pc, response_events, evset, response_data,
                   loopq, result, got, timedOut, waited, hookOut, executed,
                   failed, stdout, stdin, nLines, exited, hostCur, lineClass,
                   nRead, yielded, hostResp, hostInvoked, postSeen, recvLog,
                   nInject, returncode, stderr, outcome, options, client,
                   lineData, stdout_lock, emit_pc, written, response_lock,
                   lock_pc>>

\* The generator that was closed instead of being run to its end.
Closed == Outcome("closed", None, NoExitCode, "", None)

\* The caller stops iterating and closes the generator: before its first
\* step nothing has been made; at a yield GeneratorExit leaves "async with"
\* and the finally clause.
QueryAbandon ==
    /\ \/ /\ qpc = "start"
          /\ UNCHANGED <<sandbox, platform, nTerminate, qerr>>
       \/ /\ qpc = "iterating"
          /\ outcome = Running
          /\ yielded # <<>>
          /\ LET out == Cleanup(TRUE, sandbox, platform, NoError) IN
             /\ sandbox' = out.sandbox
             /\ platform' = out.platform
             /\ nTerminate' = nTerminate + out.called
             /\ qerr' = out.raised
    /\ outcome' = Closed
    /\ qpc' = "closed"
    /\ UNCHANGED <<features, host_hooks, host_tools, kind, callTool,
                   callInput, pc, response_events, evset, response_data,
                   loopq, result, got, timedOut, waited, hookOut, executed,
                   failed, stdout, stdin, nLines, exited, hostCur, lineClass,
                   nRead, yielded, hostResp, hostInvoked, postSeen, recvLog,
                   nInject, returncode, stderr, options, client, lineData,
                   stdout_lock, emit_pc, written, response_lock, lock_pc>>

\* ------------------------------------------------------- ModalAgentClient
MaxQueries == 2
MaxSandboxes == 2

\* An async generator made by execute_agent: gen tells the query that made
\* it, started whether it has been iterated.
Generator(gen, started) == [gen |-> gen, started |-> started]

\* _pending_response is None.
NoGenerator == Generator(0, FALSE)

\* The client: _is_connected, _pending_response, _session_id, the number
\* of query() calls made so far with the resume each of them passed to
\* execute_agent and the resume its process was given, how many messages
\* of the pending generator receive_response has taken, and what the caller
\* has seen: the messages received and the calls of clear_history.
Client(is_connected, pending_response, queries) ==
    [is_connected |-> is_connected, pending_response |-> pending_response,
     queries |-> queries, session_id |-> None, resumes |-> <<>>,
     taken |-> 0, seen |-> <<>>]

\* connect(): create the sandbox unless connected.
ClientConnect ==
    /\ qpc = "idle"
    /\ ~client.is_connected
    /\ nTerminate < MaxSandboxes
    /\ \E lookup_fails \in BOOLEAN, create_fails \in BOOLEAN :
         LET made == create_sandbox(options, lookup_fails, create_fails) IN
         /\ qerr' = made.raised
         /\ IF made.raised = NoError
            THEN /\ sandbox' = made.sandbox
                 /\ platform' = made.platform
                 /\ client' = [client EXCEPT !.is_connected = TRUE]
            ELSE UNCHANGED <<sandbox, platform, client>>
    /\ UNCHANGED <<features, host_hooks, host_tools, kind, callTool,
                   callInput, pc, response_events, evset, response_data,
                   loopq, result, got, timedOut, waited, hookOut, executed,
                   failed, stdout, stdin, nLines, exited, hostCur, lineClass,
                   nRead, yielded, hostResp, hostInvoked, postSeen, recvLog,
                   nInject, returncode, stderr, outcome, options, nTerminate,
                   qpc, lineData, stdout_lock, emit_pc, written,
                   response_lock, lock_pc>>

\* disconnect(): commit_volumes swallows its errors, terminate follows.
ClientDisconnect ==
    /\ qpc = "idle"
    /\ client.is_connected
    /\ sandbox' = terminate(sandbox, platform).sandbox
    /\ platform' = terminate(sandbox, platform).platform
    /\ nTerminate' = nTerminate + terminate(sandbox, platform).called
    /\ client' = [client EXCEPT !.is_connected = FALSE]
    /\ qerr' = NoError
    /\ UNCHANGED <<features, host_hooks, host_tools, kind, callTool,
                   callInput, pc, response_events, evset, response_data,
                   loopq, result, got, timedOut, waited, hookOut, executed,
                   failed, stdout, stdin, nLines, exited, hostCur, lineClass,
                   nRead, yielded, hostResp, hostInvoked, postSeen, recvLog,
                   nInject, returncode, stderr, outcome, options, qpc,
                   lineData, stdout_lock, emit_pc, written, response_lock,
                   lock_pc>>

\* query(prompt): connect if not connected, then keep the generator of
\* execute_agent as the pending response.
ClientQuery ==
    /\ qpc = "idle"
    /\ client.queries < MaxQueries
    /\ \E lookup_fails \in BOOLEAN, create_fails \in BOOLEAN :
         LET made == IF client.is_connected
                     THEN [raised |-> NoError, sandbox |-> sandbox,
                           platform |-> platform]
                     ELSE create_sandbox(options, lookup_fails, create_fails) IN
         /\ qerr' = made.raised
         /\ IF made.raised = NoError
            THEN /\ sandbox' = made.sandbox
                 /\ platform' = made.platform
                 /\ client' =
                        [client EXCEPT
                           !.is_connected = TRUE,
                           !.pending_response =
                               Generator(client.queries + 1, FALSE),
                           !.queries = @ + 1,
                           !.resumes =
                               Append(@, [resume |-> client.session_id,
                                          sdk |-> build_sdk_options(
                                                      options,
                                                      client.session_id)])]
            ELSE /\ client' = [client EXCEPT !.queries = @ + 1]
                 /\ UNCHANGED <<sandbox, platform>>
    /\ UNCHANGED <<features, host_hooks, host_tools, kind, callTool,
                   callInput, pc, response_events, evset, response_data,
                   loopq, result, got, timedOut, waited, hookOut, executed,
                   failed, stdout, stdin, nLines, exited, hostCur, lineClass,
                   nRead, yielded, hostResp, hostInvoked, postSeen, recvLog,
                   nInject, returncode, stderr, outcome, options, nTerminate,
                   qpc, lineData, stdout_lock, emit_pc, written,
                   response_lock, lock_pc>>

\* The caller iterates receive_response(): RuntimeError without a pending
\* response; a generator that has already ended yields nothing more and is
\* forgotten; a new one starts execute_agent, which creates the sandbox when
\* the manager holds none and starts a process.
ClientReceive ==
    /\ qpc = "idle"
    /\ IF client.pending_response = NoGenerator
       THEN /\ qerr' = Error("RuntimeError", None)
            /\ UNCHANGED <<client, sandbox, platform, qpc, stdout, nLines,
                           exited, lineClass, nRead, yielded, returncode,
                           stderr, outcome, lineData>>
       ELSE IF client.pending_response.started
       THEN /\ client' = [client EXCEPT !.pending_response = NoGenerator]
            /\ qerr' = NoError
            /\ UNCHANGED <<sandbox, platform, qpc, stdout, nLines, exited,
                           lineClass, nRead, yielded, returncode, stderr,
                           outcome, lineData>>
       ELSE \E lookup_fails \in BOOLEAN, create_fails \in BOOLEAN :
              LET made == IF sandbox # None
                          THEN [raised |-> NoError, sandbox |-> sandbox,
                                platform |-> platform]
                          ELSE create_sandbox(options, lookup_fails,
                                              create_fails) IN
              /\ client' = [client EXCEPT !.pending_response.started = TRUE,
                                           !.taken = 0]
              /\ qerr' = made.raised
              /\ IF made.raised = NoError
                 THEN /\ sandbox' = made.sandbox
                      /\ platform' = made.platform
                      /\ qpc' = "iterating"
                      /\ stdout' = <<>>
                      /\ nLines' = 0
                      /\ exited' = FALSE
                      /\ lineClass' = <<>>
                      /\ lineData' = <<>>
                      /\ nRead' = 0
                      /\ yielded' = <<>>
                      /\ returncode' = NoExitCode
                      /\ stderr' = ""
                      /\ outcome' = Running
                 ELSE UNCHANGED <<sandbox, platform, qpc, stdout, nLines,
                                  exited, lineClass, nRead, yielded,
                                  returncode, stderr, outcome, lineData>>
    /\ UNCHANGED <<features, host_hooks, host_tools, kind, callTool,
                   callInput, pc, response_events, evset, response_data,
                   loopq, result, got, timedOut, waited, hookOut, executed,
                   failed, stdin, hostCur, hostResp, hostInvoked, postSeen,
                   recvLog, nInject, options, nTerminate, stdout_lock,
                   emit_pc, written, response_lock, lock_pc>>

\* ----------------------------------------- the waiter tables, by steps
ReaderAcquire_NoLock ==
    /\ ~exited
    /\ lock_pc["reader"].at = "idle"
    /\ stdin # <<>>
    /\ ~(Head(stdin).type = "garbage" \/ Head(stdin).request_id = -1)
    /\ lock_pc' = [lock_pc EXCEPT
                     !["reader"] = LockAt("locked", "store",
                                          ReaderKey(Head(stdin)))]
    /\ UNCHANGED <<features, host_hooks, host_tools, kind, callTool,
                   callInput, pc, response_events, evset, response_data,
                   loopq, result, got, timedOut, waited, hookOut, executed,
                   failed, stdout, stdin, nLines, exited, hostCur, lineClass,
                   nRead, yielded, hostResp, hostInvoked, postSeen, recvLog,
                   nInject, returncode, stderr, outcome, options, sandbox,
                   platform, nTerminate, qpc, qerr, client, lineData,
                   stdout_lock, emit_pc, written, response_lock>>

\* The event loop thread enters the with _response_lock block of
\* register_response_event, of get_response (wait_for returned) or of the
\* except asyncio.TimeoutError branch (wait_for raised) of call c.
LoopAcquire(c) ==
    /\ lock_pc["loop"].at = "idle"
    /\ CurStep(c) \in {"register", "wait"}
    /\ response_lock = None
    /\ response_lock' = "loop"
    /\ lock_pc' = [lock_pc EXCEPT
                     !["loop"] = LockAt("locked",
                                        IF CurStep(c) = "register" THEN "register"
                                        ELSE IF c \in evset THEN "get"
                                        ELSE "expire",
                                        c)]
    /\ UNCHANGED <<features, host_hooks, host_tools, kind, callTool,
                   callInput, pc, response_events, evset, response_data,
                   loopq, result, got, timedOut, waited, hookOut, executed,
                   failed, stdout, stdin, nLines, exited, hostCur, lineClass,
                   nRead, yielded, hostResp, hostInvoked, postSeen, recvLog,
                   nInject, returncode, stderr, outcome, options, sandbox,
                   platform, nTerminate, qpc, qerr, client, lineData,
                   stdout_lock, emit_pc, written>>

\* The body of the block the loop thread is in, and what the call does with
\* its outcome.
LoopAccess ==
    /\ lock_pc["loop"].at = "locked"
    /\ lock_pc' = [lock_pc EXCEPT !["loop"].at = "accessed"]
    /\ LET c == lock_pc["loop"].id
           op == lock_pc["loop"].op IN
       IF op = "register"
       THEN /\ response_events' = response_events \cup {c}
            /\ pc' = [pc EXCEPT ![c] = @ + 1]
            /\ UNCHANGED <<response_data, got, result, hookOut, evset,
                           timedOut, waited>>
       ELSE /\ get_response(c)
            /\ pc' = [pc EXCEPT ![c] = Len(Steps(c)) + 1]
            /\ evset' = evset \ {c}
            /\ LET response == IF op = "get" THEN response_data[c] ELSE NoResp IN
               /\ got' = [got EXCEPT ![c] = response]
               /\ result' = [result EXCEPT ![c] = ResultOf(c, response)]
               /\ hookOut' = [hookOut EXCEPT ![c] =
                                IF kind[c] = "hook"
                                THEN pre_tool_use_hook(ResultOf(c, response))
                                ELSE @]
            /\ IF op = "expire"
               THEN /\ timedOut' = timedOut \cup {c}
                    /\ waited' = [waited EXCEPT
                                    ![c] = proxy_timeout(kind[c], host_hooks)]
               ELSE UNCHANGED <<timedOut, waited>>
    /\ UNCHANGED <<features, host_hooks, host_tools, kind, callTool,
                   callInput, loopq, executed, failed, stdout, stdin, nLines,
                   exited, hostCur, lineClass, nRead, yielded, hostResp,
                   hostInvoked, postSeen, recvLog, nInject, returncode,
                   stderr, outcome, options, sandbox, platform, nTerminate,
                   qpc, qerr, client, lineData, stdout_lock, emit_pc,
                   written, response_lock>>

\* The reader thread has read a line with a request_id and enters its with
\* _response_lock block.
ReaderAcquire ==
    /\ ~exited
    /\ lock_pc["reader"].at = "idle"
    /\ stdin # <<>>
    /\ ~(Head(stdin).type = "garbage" \/ Head(stdin).request_id = -1)
    /\ response_lock = None
    /\ response_lock' = "reader"
    /\ lock_pc' = [lock_pc EXCEPT
                     !["reader"] = LockAt("locked", "store",
                                          ReaderKey(Head(stdin)))]
    /\ UNCHANGED <<features, host_hooks, host_tools, kind, callTool,
                   callInput, pc, response_events, evset, response_data,
                   loopq, result, got, timedOut, waited, hookOut, executed,
                   failed, stdout, stdin, nLines, exited, hostCur, lineClass,
                   nRead, yielded, hostResp, hostInvoked, postSeen, recvLog,
                   nInject, returncode, stderr, outcome, options, sandbox,
                   platform, nTerminate, qpc, qerr, client, lineData,
                   stdout_lock, emit_pc, written>>

\* _response_data[request_id] = response; event = _response_events.get(...)
ReaderAccess ==
    /\ lock_pc["reader"].at = "locked"
    /\ LET key == lock_pc["reader"].id IN
       /\ response_data' = [response_data EXCEPT ![key] = Head(stdin)]
       /\ recvLog' = Append(recvLog, Head(stdin))
       /\ lock_pc' = [lock_pc EXCEPT
                        !["reader"] = LockAt("accessed",
                                             IF key \in response_events
                                             THEN "signal" ELSE "store",
                                             key)]
    /\ stdin' = Tail(stdin)
    /\ UNCHANGED <<features, host_hooks, host_tools, kind, callTool,
                   callInput, pc, response_events, evset, loopq, result, got,
                   timedOut, waited, hookOut, executed, failed, stdout,
                   nLines, exited, hostCur, lineClass, nRead, yielded,
                   hostResp, hostInvoked, postSeen, nInject, returncode,
                   stderr, outcome, options, sandbox, platform, nTerminate,
                   qpc, qerr, client, lineData, stdout_lock, emit_pc,
                   written, response_lock>>

\* The end of a with _response_lock block.
Release(t) ==
    /\ lock_pc[t].at = "accessed"
    /\ response_lock' = IF response_lock = t THEN None ELSE response_lock
    /\ lock_pc' = [lock_pc EXCEPT
                     ![t] = IF lock_pc[t].op = "signal"
                            THEN [@ EXCEPT !.at = "signal"]
                            ELSE LockAt("idle", None, 0)]
    /\ UNCHANGED <<features, host_hooks, host_tools, kind, callTool,
                   callInput, pc, response_events, evset, response_data,
                   loopq, result, got, timedOut, waited, hookOut, executed,
                   failed, stdout, stdin, nLines, exited, hostCur, lineClass,
                   nRead, yielded, hostResp, hostInvoked, postSeen, recvLog,
                   nInject, returncode, stderr, outcome, options, sandbox,
                   platform, nTerminate, qpc, qerr, client, lineData,
                   stdout_lock, emit_pc, written>>

\* if event and self._loop: self._loop.call_soon_threadsafe(event.set)
ReaderSignal ==
    /\ lock_pc["reader"].at = "signal"
    /\ loopq' = loopq \cup {lock_pc["reader"].id}
    /\ lock_pc' = [lock_pc EXCEPT !["reader"] = LockAt("idle", None, 0)]
    /\ UNCHANGED <<features, host_hooks, host_tools, kind, callTool,
                   callInput, pc, response_events, evset, response_data,
                   result, got, timedOut, waited, hookOut, executed, failed,
                   stdout, stdin, nLines, exited, hostCur, lineClass, nRead,
                   yielded, hostResp, hostInvoked, postSeen, recvLog,
                   nInject, returncode, stderr, outcome, options, sandbox,
                   platform, nTerminate, qpc, qerr, client, lineData,
                   stdout_lock, emit_pc, written, response_lock>>

\* ------------------------------------------------ emit_message, by steps
\* One emit_message writes one line (output_bytes, which ends with chr(10));
\* the line reaches the file descriptor in PiecesPerLine writes.
EmitAcquire_NoLock(e) ==
    /\ emit_pc[e].at = "acquire"
    /\ stdout_lock' = e
    /\ emit_pc' = [emit_pc EXCEPT ![e].at = "write"]
    /\ UNCHANGED <<features, host_hooks, host_tools, kind, callTool,
                   callInput, pc, response_events, evset, response_data,
                   loopq, result, got, timedOut, waited, hookOut, executed,
                   failed, stdout, stdin, nLines, exited, hostCur, lineClass,
                   nRead, yielded, hostResp, hostInvoked, postSeen, recvLog,
                   nInject, returncode, stderr, outcome, options, sandbox,
                   platform, nTerminate, qpc, qerr, client, lineData,
                   written, response_lock, lock_pc>>

\* emit_message(msg_type, data) is called: output_bytes is built.
EmitBegin(e) ==
    /\ emit_pc[e].at = "idle"
    /\ emit_pc[e].line < MaxEmits
    /\ emit_pc' = [emit_pc EXCEPT ![e] = EmitAt("acquire", @.line + 1, 0)]
    /\ UNCHANGED <<features, host_hooks, host_tools, kind, callTool,
                   callInput, pc, response_events, evset, response_data,
                   loopq, result, got, timedOut, waited, hookOut, executed,
                   failed, stdout, stdin, nLines, exited, hostCur, lineClass,
                   nRead, yielded, hostResp, hostInvoked, postSeen, recvLog,
                   nInject, returncode, stderr, outcome, options, sandbox,
                   platform, nTerminate, qpc, qerr, client, lineData,
                   stdout_lock, written, response_lock, lock_pc>>

\* with _stdout_lock: the emitter waits until the lock is free.
EmitAcquire(e) ==
    /\ emit_pc[e].at = "acquire"
    /\ stdout_lock = None
    /\ stdout_lock' = e
    /\ emit_pc' = [emit_pc EXCEPT ![e].at = "write"]
    /\ UNCHANGED <<features, host_hooks, host_tools, kind, callTool,
                   callInput, pc, response_events, evset, response_data,
                   loopq, result, got, timedOut, waited, hookOut, executed,
                   failed, stdout, stdin, nLines, exited, hostCur, lineClass,
                   nRead, yielded, hostResp, hostInvoked, postSeen, recvLog,
                   nInject, returncode, stderr, outcome, options, sandbox,
                   platform, nTerminate, qpc, qerr, client, lineData,
                   written, response_lock, lock_pc>>

\* sys.stdout.buffer.write(output_bytes) and flush(): the next piece of the
\* line goes out; the last piece ends with the newline.
EmitWrite(e) ==
    /\ emit_pc[e].at = "write"
    /\ written' = Append(written, Piece(e, emit_pc[e].line, emit_pc[e].pieces + 1))
    /\ emit_pc' = [emit_pc EXCEPT
                     ![e].pieces = @ + 1,
                     ![e].at = IF emit_pc[e].pieces + 1 = PiecesPerLine
                               THEN "release" ELSE "write"]
    /\ UNCHANGED <<features, host_hooks, host_tools, kind, callTool,
                   callInput, pc, response_events, evset, response_data,
                   loopq, result, got, timedOut, waited, hookOut, executed,
                   failed, stdout, stdin, nLines, exited, hostCur, lineClass,
                   nRead, yielded, hostResp, hostInvoked, postSeen, recvLog,
                   nInject, returncode, stderr, outcome, options, sandbox,
                   platform, nTerminate, qpc, qerr, client, lineData,
                   stdout_lock, response_lock, lock_pc>>

\* The end of the with block, after fsync and the sleep of 50 ms.
EmitRelease(e) ==
    /\ emit_pc[e].at = "release"
    /\ stdout_lock' = IF stdout_lock = e THEN None ELSE stdout_lock
    /\ emit_pc' = [emit_pc EXCEPT ![e].at = "idle"]
    /\ UNCHANGED <<features, host_hooks, host_tools, kind, callTool,
                   callInput, pc, response_events, evset, response_data,
                   loopq, result, got, timedOut, waited, hookOut, executed,
                   failed, stdout, stdin, nLines, exited, hostCur, lineClass,
                   nRead, yielded, hostResp, hostInvoked, postSeen, recvLog,
                   nInject, returncode, stderr, outcome, options, sandbox,
                   platform, nTerminate, qpc, qerr, client, lineData,
                   written, response_lock, lock_pc>>

\* The session ids and subtypes of the messages a process of the model
\* writes: result messages with and without a usable session id, and the
\* init message of a session.
ResultData ==
    {MessageData("success", "s1"), MessageData("error", "s2"),
     MessageData("success", ""), MessageData("init", "s3")}

\* emit_agent_message of a message with a subtype and a session_id.
EmitResult(data) ==
    /\ platform = "running"
    /\ ~exited
    /\ nLines < MaxLines
    /\ nLines' = nLines + 1
    /\ lineClass' = Append(lineClass, "message")
    /\ lineData' = Append(lineData, data)
    /\ stdout' = Append(stdout, OutputLine("message", nLines + 1))
    /\ UNCHANGED <<features, host_hooks, host_tools, kind, callTool,
                   callInput, pc, response_events, evset, response_data,
                   loopq, result, got, timedOut, waited, hookOut, executed,
                   failed, stdin, exited, hostCur, nRead, yielded, hostResp,
                   hostInvoked, postSeen, recvLog, nInject, returncode,
                   stderr, outcome, options, sandbox, platform, nTerminate,
                   qpc, qerr, client, stdout_lock, emit_pc, written,
                   response_lock, lock_pc>>

\* The mark clear_history leaves in what the caller has seen.
Cleared == MessageData("clear_history", None)

ClientTake_SuccessOnly ==
    /\ qpc = "iterating"
    /\ client.pending_response # NoGenerator
    /\ client.taken < Len(yielded)
    /\ LET raw_message == lineData[yielded[client.taken + 1].n] IN
       client' = [client EXCEPT
                    !.taken = @ + 1,
                    !.seen = Append(@, raw_message),
                    !.session_id =
                        IF raw_message.subtype = "success"
                           /\ Truthy(raw_message.session_id)
                        THEN raw_message.session_id ELSE @]
    /\ UNCHANGED <<features, host_hooks, host_tools, kind, callTool,
                   callInput, pc, response_events, evset, response_data,
                   loopq, result, got, timedOut, waited, hookOut, executed,
                   failed, stdout, stdin, nLines, exited, hostCur, lineClass,
                   nRead, yielded, hostResp, hostInvoked, postSeen, recvLog,
                   nInject, returncode, stderr, outcome, options, sandbox,
                   platform, nTerminate, qpc, qerr, lineData, stdout_lock,
                   emit_pc, written, response_lock, lock_pc>>

\* The body of the loop of receive_response for one message of the pending
\* generator: the session_id of a message with subtype success or error is
\* kept, and the message goes to the caller.
ClientTake ==
    /\ qpc = "iterating"
    /\ client.pending_response # NoGenerator
    /\ client.taken < Len(yielded)
    /\ LET raw_message == lineData[yielded[client.taken + 1].n] IN
       client' = [client EXCEPT
                    !.taken = @ + 1,
                    !.seen = Append(@, raw_message),
                    !.session_id =
                        IF raw_message.subtype \in {"success", "error"}
                           /\ Truthy(raw_message.session_id)
                        THEN raw_message.session_id ELSE @]
    /\ UNCHANGED <<features, host_hooks, host_tools, kind, callTool,
                   callInput, pc, response_events, evset, response_data,
                   loopq, result, got, timedOut, waited, hookOut, executed,
                   failed, stdout, stdin, nLines, exited, hostCur, lineClass,
                   nRead, yielded, hostResp, hostInvoked, postSeen, recvLog,
                   nInject, returncode, stderr, outcome, options, sandbox,
                   platform, nTerminate, qpc, qerr, lineData, stdout_lock,
                   emit_pc, written, response_lock, lock_pc>>

\* clear_history(): the history and the session id are reset.
ClientClearHistory ==
    /\ qpc = "idle"
    /\ client' = [client EXCEPT
                    !.session_id = None,
                    !.seen = IF @ # <<>> /\ @[Len(@)] = Cleared THEN @
                             ELSE Append(@, Cleared)]
    /\ UNCHANGED <<features, host_hooks, host_tools, kind, callTool,
                   callInput, pc, response_events, evset, response_data,
                   loopq, result, got, timedOut, waited, hookOut, executed,
                   failed, stdout, stdin, nLines, exited, hostCur, lineClass,
                   nRead, yielded, hostResp, hostInvoked, postSeen, recvLog,
                   nInject, returncode, stderr, outcome, options, sandbox,
                   platform, nTerminate, qpc, qerr, lineData, stdout_lock,
                   emit_pc, written, response_lock, lock_pc>>

ClientReceiveEnd_KeepsPending ==
    /\ qpc = "iterating"
    /\ outcome.state \in {"completed", "raised"}
    /\ client.taken = Len(yielded)
    /\ qerr' = Error(outcome.error, outcome.cause)
    /\ UNCHANGED client
    /\ qpc' = "idle"
    /\ UNCHANGED <<features, host_hooks, host_tools, kind, callTool,
                   callInput, pc, response_events, evset, response_data,
                   loopq, result, got, timedOut, waited, hookOut, executed,
                   failed, stdout, stdin, nLines, exited, hostCur, lineClass,
                   nRead, yielded, hostResp, hostInvoked, postSeen, recvLog,
                   nInject, returncode, stderr, outcome, options, sandbox,
                   platform, nTerminate, lineData, stdout_lock, emit_pc,
                   written, response_lock, lock_pc>>

\* The pending generator ends under receive_response: when it returns, the
\* loop ends and _pending_response is set to None; when it raises, the
\* error passes through and the assignment is not reached.
ClientReceiveEnd ==
    /\ qpc = "iterating"
    /\ outcome.state \in {"completed", "raised"}
    /\ client.taken = Len(yielded)
    /\ qerr' = Error(outcome.error, outcome.cause)
    /\ client' = IF outcome.state = "completed"
                 THEN [client EXCEPT !.pending_response = NoGenerator]
                 ELSE client
    /\ qpc' = "idle"
    /\ UNCHANGED <<features, host_hooks, host_tools, kind, callTool,
                   callInput, pc, response_events, evset, response_data,
                   loopq, result, got, timedOut, waited, hookOut, executed,
                   failed, stdout, stdin, nLines, exited, hostCur, lineClass,
                   nRead, yielded, hostResp, hostInvoked, postSeen, recvLog,
                   nInject, returncode, stderr, outcome, options, sandbox,
                   platform, nTerminate, lineData, stdout_lock, emit_pc,
                   written, response_lock, lock_pc>>

\* ------------------------------------------------------------ environment
\* The request envelopes written to stdout so far.
Emitted(c) == \E i \in 1..Len(Steps(c)) : i < pc[c] /\ Steps(c)[i] = "emit"

EmittedIds == {c \in Calls : Emitted(c)}

InjectedResponse(id) ==
    IF id \in Calls /\ kind[id] = "tool"
    THEN ToolResponse(id, <<"injected">>, FALSE)
    ELSE HookResponse(id, "allow", "injected", None)

\* A response line on stdin that the host loop did not write: a duplicate
\* or early answer to an emitted request, or an answer to no request.
Inject ==
    /\ ~exited
    /\ nInject < MaxInject
    /\ nInject' = nInject + 1
    /\ \E id \in EmittedIds \cup {ForeignId} :
         stdin' = Append(stdin, InjectedResponse(id))
    /\ UNCHANGED <<features, host_hooks, host_tools, kind, callTool,
                   callInput, pc, response_events, evset, response_data,
                   loopq, result, got, timedOut, waited, hookOut, executed,
                   failed, stdout, nLines, exited, hostCur, lineClass, nRead,
                   yielded, hostResp, hostInvoked, postSeen, recvLog,
                   returncode, stderr, outcome, options, sandbox, platform,
                   nTerminate, qpc, qerr, client, lineData, stdout_lock,
                   emit_pc, written, response_lock, lock_pc>>

\* A line on stdin that answers the emitted request of call c with the
\* other kind of envelope: a host_tool_response that says deny for a hook
\* call, a hook_response with content for a host-tool call.
WrongKindResponse(c) ==
    IF kind[c] = "hook"
    THEN [ToolResponse(c, <<"injected">>, FALSE) EXCEPT
             !.decision = "deny", !.reason = "injected",
             !.updated_input = "/injected"]
    ELSE [HookResponse(c, "allow", None, None) EXCEPT
             !.content = <<"injected">>]

\* One such line per call, in the order of the calls.
InjectWrongKind(c) ==
    /\ ~exited
    /\ Emitted(c)
    /\ nInject = c - 1
    /\ nInject' = nInject + 1
    /\ stdin' = Append(stdin, WrongKindResponse(c))
    /\ UNCHANGED <<features, host_hooks, host_tools, kind, callTool,
                   callInput, pc, response_events, evset, response_data,
                   loopq, result, got, timedOut, waited, hookOut, executed,
                   failed, stdout, nLines, exited, hostCur, lineClass, nRead,
                   yielded, hostResp, hostInvoked, postSeen, recvLog,
                   returncode, stderr, outcome, options, sandbox, platform,
                   nTerminate, qpc, qerr, client, lineData, stdout_lock,
                   emit_pc, written, response_lock, lock_pc>>

\* ---------------------------------------------- configurations, requests
\* The sequences over S of length at most n.
SeqsUpTo(S, n) == UNION {[1..k -> S] : k \in 0..n}

\* Callables registered as pre-tool-use callbacks; failing_hook raises.
PreCallbackNames ==
    {"block_rm", "redirect_path", "path_redirect_hook", "counting_hook",
     "failing_hook"}

PostCallbackNames == {"capture_hook", "failing_hook"}

ToolFilters == {None, "Bash"}

\* ModalAgentHooks(pre_tool_use=..., post_tool_use=..., tool_filter=...)
HookConfigs ==
    {HooksConfig}
    \cup [pre_tool_use : SeqsUpTo(PreCallbackNames, MaxCallbacks),
          post_tool_use : {<<>>}, tool_filter : ToolFilters,
          timeout : {HooksTimeoutDefault}]
    \cup [pre_tool_use : {<<>>},
          post_tool_use : SeqsUpTo(PostCallbackNames, MaxCallbacks),
          tool_filter : ToolFilters, timeout : {HooksTimeoutDefault}]

\* Host tools by (name, handler): two of one name, and a name with a colon.
ToolPool ==
    {HostTool("t", "echo_tool"), HostTool("t", "str_tool"),
     HostTool("b:t", "sync_echo")}

ServerNames == {"a", "b"}

Servers ==
    {HostToolServer(n, ts) : n \in ServerNames, ts \in SeqsUpTo(ToolPool, MaxTools)}

\* One server "test" with one tool per kind of handler.
HandlerNames ==
    {"echo_tool", "read_local_file", "sync_echo", "str_tool", "error_tool", "sync_error_tool",
     "dict_tool", "sync_dict_tool", "int_tool"}

\* HostToolServer lists given as options.host_tools.
ServerLists ==
    {HostToolsConfig}
    \cup {<<s1>> : s1 \in Servers}
    \cup {<<s1, s2>> : s1 \in Servers, s2 \in Servers}
    \cup {<<HostToolServer("test", <<HostTool(h, h)>>)>> : h \in HandlerNames}

\* The names of the servers, and of the tools, of a server list.
ServerNamesOf(servers) == {servers[i].name : i \in DOMAIN servers}

ToolNamesOf(servers) ==
    {ToolEntries(servers)[i].tool.name : i \in DOMAIN ToolEntries(servers)}

\* (hook_event, tool_name, tool_input) of the hook requests of the model.
HookRequests ==
    ({"PreToolUse"} \X {"Bash", "Read"} \X {"rm -rf /", "/etc/passwd", "/safe/path"})
    \cup ({"PostToolUse"} \X {"Bash", "Read"} \X {"ls"})

\* The sandbox writes a request envelope: the proxied call c of the agent
\* runtime, by the line it emits.  One request is outstanding at a time.
RequestArrives(c) ==
    /\ ~exited
    /\ kind[c] = None
    /\ IF c = 1 THEN TRUE ELSE kind[c - 1] # None
    /\ stdout = <<>>
    /\ hostCur = NoLine
    /\ \E k \in features :
         IF k = "hooks"
         THEN \E r \in HookRequests :
                /\ kind' = [kind EXCEPT ![c] = "hook"]
                /\ callTool' = [callTool EXCEPT ![c] = r[2]]
                /\ callInput' = [callInput EXCEPT ![c] = r[3]]
                /\ stdout' = Append(stdout,
                       [type |-> "hook_request",
                        request_id |-> IF r[1] = "PreToolUse" THEN c ELSE PostId(c),
                        n |-> 0, hook_event |-> r[1], server_name |-> None,
                        tool_name |-> r[2], tool_input |-> r[3],
                        is_error |-> FALSE])
         ELSE \E sn \in ServerNames \cup ServerNamesOf(host_tools),
                 tn \in {"t", "b:t"} \cup ToolNamesOf(host_tools) :
                /\ kind' = [kind EXCEPT ![c] = "tool"]
                /\ callTool' = [callTool EXCEPT ![c] = tn]
                /\ callInput' = [callInput EXCEPT ![c] = "hello world"]
                /\ stdout' = Append(stdout,
                       [type |-> "host_tool_request", request_id |-> c,
                        n |-> 0, hook_event |-> None, server_name |-> sn,
                        tool_name |-> tn, tool_input |-> "hello world",
                        is_error |-> FALSE])
    /\ UNCHANGED <<features, host_hooks, host_tools, pc, response_events,
                   evset, response_data, loopq, result, got, timedOut,
                   waited, hookOut, executed, failed, stdin, nLines, exited,
                   hostCur, lineClass, nRead, yielded, hostResp, hostInvoked,
                   postSeen, recvLog, nInject, returncode, stderr, outcome,
                   options, sandbox, platform, nTerminate, qpc, qerr, client,
                   lineData, stdout_lock, emit_pc, written, response_lock,
                   lock_pc>>

\* --------------------------------------------------------- specification
\* No call has begun, nothing is written yet.
\* No process has been started and the host has read nothing.
NoRunYet ==
    /\ kind = [c \in Calls |-> None]
    /\ callTool = [c \in Calls |-> None]
    /\ callInput = [c \in Calls |-> None]
    /\ pc = [c \in Calls |-> 0]
    /\ response_events = {}
    /\ evset = {}
    /\ response_data = [id \in Ids |-> NoResp]
    /\ loopq = {}
    /\ result = [c \in Calls |-> NoResult]
    /\ got = [c \in Calls |-> NoResp]
    /\ timedOut = {}
    /\ waited = [c \in Calls |-> 0]
    /\ hookOut = [c \in Calls |-> NoHookOut]
    /\ executed = {}
    /\ stdout = <<>>
    /\ stdin = <<>>
    /\ nLines = 0
    /\ exited = FALSE
    /\ hostCur = NoLine
    /\ lineClass = <<>>
    /\ nRead = 0
    /\ yielded = <<>>
    /\ hostResp = [c \in Calls |-> NoResp]
    /\ hostInvoked = [c \in Calls |-> <<>>]
    /\ postSeen = <<>>
    /\ recvLog = <<>>
    /\ nInject = 0
    /\ returncode = NoExitCode
    /\ stderr = ""
    /\ outcome = Running
    /\ lineData = <<>>
    /\ stdout_lock = None
    /\ emit_pc = [e \in Emitters |-> EmitAt("idle", 0, 0)]
    /\ written = <<>>
    /\ response_lock = None
    /\ lock_pc = [t \in Threads |-> LockAt("idle", None, 0)]

\* The same, where every tool the agent will run succeeds.
NoRun ==
    /\ NoRunYet
    /\ failed = {}

\* No call has begun, nothing is written yet; the sandbox of the run exists
\* and the caller is iterating execute_agent.
Idle ==
    /\ NoRun
    /\ options = Options(FALSE, TRUE, FALSE, FALSE)
    /\ sandbox = "sandbox"
    /\ platform = "running"
    /\ nTerminate = 0
    /\ qpc = "iterating"
    /\ qerr = NoError
    /\ client = Client(FALSE, NoGenerator, 0)

Init ==
    /\ features \in SUBSET {"hooks", "tools"}
    /\ host_hooks = HooksConfig
    /\ host_tools = HostToolsConfig
    /\ Idle

Next ==
    \/ \E c \in Calls : CallStart(c)
    \/ \E c \in Calls : Register(c)
    \/ \E c \in Calls : EmitRequest(c)
    \/ \E c \in Calls : Sleep(c)
    \/ \E c \in Calls : WaitReturn(c)
    \/ \E c \in Calls : Timeout(c)
    \/ \E c \in Calls : ToolExecute(c)
    \/ SandboxExit
    \/ ReaderStore
    \/ \E c \in Calls : LoopRunSet(c)
    \/ HostReadLine
    \/ HostFinishDispatch

\* The relay: proxied calls, the stdin reader and the host's dispatch.
Spec == Init /\ [][Next]_vars

\* The relay together with the process's other output lines, and the plain
\* path of execute_agent when neither hooks nor host tools are configured.
NextStream ==
    \/ Next
    \/ \E cls \in LineClasses : EmitLine(cls)
    \/ HostPlainRead

SpecStream == Init /\ [][NextStream]_vars

\* The host's dispatch of request lines, for the hook configurations and
\* host tool servers of the model: one of the two features is configured.
InitDispatch ==
    /\ \/ /\ features = {"hooks"}
          /\ host_hooks \in HookConfigs
          /\ host_tools = HostToolsConfig
       \/ /\ features = {"tools"}
          /\ host_hooks = HooksConfig
          /\ host_tools \in ServerLists
    /\ Idle

NextDispatch ==
    \/ \E c \in Calls : RequestArrives(c)
    \/ HostReadLine
    \/ HostFinishDispatch

SpecDispatch == InitDispatch /\ [][NextDispatch]_vars

\* A whole run of execute_agent on either path: the lines of the process,
\* its exit, the host's reading and the way the generator ends.
RunLineClasses == LineClasses \cup {"none", "empty"}

NextRun ==
    \/ \E cls \in RunLineClasses : EmitLine(cls)
    \/ RequestArrives(1)
    \/ \E code \in ExitCodes, text \in StderrTexts : ProcessExit(code, text)
    \/ HostReadLine
    \/ HostFinishDispatch
    \/ HostPlainRead
    \/ HostStreamEnd
    \/ HostPlainEnd
    \/ \E e \in PlatformExceptions : PlatformRaises(e)

SpecRun == Init /\ [][NextRun]_vars

\* query() from the caller's first step to its way out, for every
\* configuration of the validated options.
OptionsSet ==
    {Options(b, s, e, l) : b \in BOOLEAN, s \in BOOLEAN, e \in BOOLEAN,
                           l \in BOOLEAN}

InitQuery ==
    /\ features \in SUBSET {"hooks", "tools"}
    /\ host_hooks = HooksConfig
    /\ host_tools = HostToolsConfig
    /\ NoRun
    /\ options \in OptionsSet
    /\ sandbox = None
    /\ platform = "none"
    /\ nTerminate = 0
    /\ qpc = "start"
    /\ qerr = NoError
    /\ client = Client(FALSE, NoGenerator, 0)

NextQuery ==
    \/ QueryEnter
    \/ EmitLine("message")
    \/ \E code \in ExitCodes : ProcessExit(code, "ValueError: bad prompt")
    \/ HostReadLine
    \/ HostPlainRead
    \/ HostStreamEnd
    \/ HostPlainEnd
    \/ \E e \in PlatformExceptions : PlatformRaises(e)
    \/ QueryExit
    \/ QueryAbandon

SpecQuery == InitQuery /\ [][NextQuery]_vars

\* A ModalAgentClient driven by its caller: connect, query,
\* receive_response to the end, disconnect.
InitClient ==
    /\ features \in {{}, {"hooks"}}
    /\ host_hooks = HooksConfig
    /\ host_tools = HostToolsConfig
    /\ NoRun
    /\ options \in {Options(FALSE, TRUE, FALSE, FALSE),
                    Options(TRUE, TRUE, FALSE, FALSE)}
    /\ sandbox = None
    /\ platform = "none"
    /\ nTerminate = 0
    /\ qpc = "idle"
    /\ qerr = NoError
    /\ client = Client(FALSE, NoGenerator, 0)

NextClient ==
    \/ ClientConnect
    \/ ClientDisconnect
    \/ ClientQuery
    \/ ClientReceive
    \/ ClientReceiveEnd
    \/ ClientTake
    \/ EmitLine("message")
    \/ \E code \in ExitCodes : ProcessExit(code, "ValueError: bad prompt")
    \/ HostReadLine
    \/ HostPlainRead
    \/ HostStreamEnd
    \/ HostPlainEnd
    \/ \E e \in PlatformExceptions : PlatformRaises(e)

SpecClient == InitClient /\ [][NextClient]_vars

\* The turns of a conversation: a client without host features whose
\* processes write messages with subtypes and session ids, and whose caller
\* may clear the history between turns.
InitSession ==
    /\ NoRun
    /\ nTerminate = 0
    /\ qerr = NoError
    /\ client = Client(FALSE, NoGenerator, 0)
    /\ features = {}
    /\ host_hooks = [pre |-> <<>>, post |-> <<>>]
    /\ host_tools = <<>>
    /\ options \in {Options(FALSE, TRUE, FALSE, FALSE),
                    [Options(FALSE, TRUE, FALSE, FALSE) EXCEPT !.resume = "s0"]}
    /\ sandbox = None
    /\ platform = "none"
    /\ qpc = "idle"

NextSession ==
    \/ ClientQuery
    \/ ClientReceive
    \/ ClientTake
    \/ ClientReceiveEnd
    \/ ClientClearHistory
    \/ ClientDisconnect
    \/ \E data \in ResultData : EmitResult(data)
    \/ ProcessExit(0, "ValueError: bad prompt")
    \/ HostPlainRead
    \/ HostPlainEnd

SpecSession == InitSession /\ [][NextSession]_vars

\* The relay with stdin also fed by the environment.
NextInject ==
    \/ Next
    \/ Inject

SpecInject == Init /\ [][NextInject]_vars

\* The relay with the blocks under _response_lock taken step by step, by the
\* thread of the event loop and the thread of the stdin reader.
InitLocks ==
    /\ features = {"hooks", "tools"}
    /\ host_hooks = HooksConfig
    /\ host_tools = HostToolsConfig
    /\ Idle

NextLocks ==
    \/ \E c \in Calls : CallStart(c)
    \/ \E c \in Calls : LoopAcquire(c)
    \/ LoopAccess
    \/ \E t \in Threads : Release(t)
    \/ \E c \in Calls : EmitRequest(c)
    \/ \E c \in Calls : Sleep(c)
    \/ ReaderAcquire
    \/ ReaderAccess
    \/ ReaderSignal
    \/ \E c \in Calls : LoopRunSet(c)
    \/ HostReadLine
    \/ HostFinishDispatch
    \/ Inject

SpecLocks == InitLocks /\ [][NextLocks]_vars

\* The emitters of the process writing their lines concurrently.
NextEmit ==
    \/ \E e \in Emitters : EmitBegin(e)
    \/ \E e \in Emitters : EmitAcquire(e)
    \/ \E e \in Emitters : EmitWrite(e)
    \/ \E e \in Emitters : EmitRelease(e)

SpecEmit == Init /\ [][NextEmit]_vars

\* The relay under the scheduling of the process: the event loop runs every
\* coroutine that can take its next step, and the timer of wait_for fires.
\* Nothing is assumed of the host, of the stdin reader thread or of the
\* callbacks handed to the loop.
SpecLive ==
    /\ Init
    /\ [][Next]_vars
    /\ \A c \in Calls :
          /\ WF_vars(Register(c))
          /\ WF_vars(EmitRequest(c))
          /\ WF_vars(Sleep(c))
          /\ WF_vars(WaitReturn(c))
          /\ WF_vars(Timeout(c))

\* The relay with answers of the wrong kind on stdin.
NextWrongKind ==
    \/ Next
    \/ \E c \in Calls : InjectWrongKind(c)

InitWrongKind ==
    /\ features = {"hooks", "tools"}
    /\ host_hooks = HooksConfig
    /\ host_tools = HostToolsConfig
    /\ Idle

SpecWrongKind == InitWrongKind /\ [][NextWrongKind]_vars

\* The relay where the tools the agent runs fail or succeed.
InitPost ==
    /\ features = {"hooks", "tools"}
    /\ host_hooks = HooksConfig
    /\ host_tools = HostToolsConfig
    /\ NoRunYet
    /\ failed \in SUBSET Calls
    /\ options = Options(FALSE, TRUE, FALSE, FALSE)
    /\ sandbox = "sandbox"
    /\ platform = "running"
    /\ nTerminate = 0
    /\ qpc = "iterating"
    /\ qerr = NoError
    /\ client = Client(FALSE, NoGenerator, 0)

SpecPost == InitPost /\ [][Next]_vars

\* ModalAgentHooks(timeout=...) of the model, in seconds.
HooksTimeouts == {5, HooksTimeoutDefault, 60}

\* The relay with host tools, and hooks configured with a timeout of their
\* own.
InitTimeout ==
    /\ features = {"hooks", "tools"}
    /\ host_hooks \in {[HooksConfig EXCEPT !.timeout = t] : t \in HooksTimeouts}
    /\ host_tools = HostToolsConfig
    /\ Idle

SpecTimeout == InitTimeout /\ [][Next]_vars

\* ================================================================ claims
\* First response the stdin reader stored for id (NoResp: none yet).
FirstRecv(id) ==
    IF \E i \in DOMAIN recvLog : recvLog[i].request_id = id
    THEN recvLog[CHOOSE i \in DOMAIN recvLog :
                    /\ recvLog[i].request_id = id
                    /\ \A j \in 1..(i - 1) : recvLog[j].request_id # id]
    ELSE NoResp

AllowDefault == [NoResult EXCEPT !.decision = "allow"]

\* C1: the waiter of a call is registered before its request is written, so
\* while the call is in progress (not returned, not timed out) an emitted
\* request always has a waiter, and a response the reader has stored for it
\* found that waiter: its wake-up is handed to the loop or already done.
C1_NoLostWakeup ==
    \A c \in Calls :
        InProgress(c) =>
            /\ Emitted(c) => c \in response_events
            /\ response_data[c] # NoResp =>
                   c \in response_events /\ (c \in loopq \/ c \in evset)

C1_Witness ==
    \E c \in Calls :
        /\ InProgress(c)
        /\ response_data[c] = hostResp[c]
        /\ hostResp[c] # NoResp
        /\ c \in evset

\* C2: with two or more requests in flight, in whatever order the responses
\* arrive, the response a call takes carries the call's own request_id and
\* is a response made for that request, never another request's payload.
C2_RoutedByRequestId ==
    \A c \in Calls :
        got[c] # NoResp =>
            /\ got[c].request_id = c
            /\ got[c] \in {hostResp[c], InjectedResponse(c)}

\* Both calls answered, the answer to the later request stored first.
C2_Witness ==
    /\ got[1] # NoResp
    /\ got[NCalls] # NoResp
    /\ \E i, j \in DOMAIN recvLog :
          /\ i < j
          /\ recvLog[i].request_id = NCalls
          /\ recvLog[j].request_id = 1

\* C3 (as claimed): a call that is handed a response is handed the first
\* response received for its request_id, and a further response with that id
\* changes neither the payload handed over nor, once the call has taken its
\* response, the waiter tables.
C3_Original ==
    \A c \in Calls :
        got[c] # NoResp =>
            /\ got[c] = FirstRecv(c)
            /\ c \notin response_events
            /\ response_data[c] = NoResp

\* C4 (as claimed): after a request timed out, a response arriving for it
\* leaves both waiter tables without an entry for it.
C4_Original ==
    \A c \in timedOut :
        c \notin response_events /\ response_data[c] = NoResp

\* C5 (as claimed): when the reader processes a response whose request_id
\* has no registered waiter, the waiter tables stay as they were.
C5_Original ==
    [][(/\ stdin # <<>>
        /\ stdin' = Tail(stdin)
        /\ Head(stdin).request_id \notin response_events)
       => (response_events' = response_events /\ response_data' = response_data)]_vars

\* C6 (as claimed): a tool call the host's callback chain denies is never
\* executed in the sandbox.
C6_Original ==
    \A c \in Calls :
        (kind[c] = "hook" /\ hostResp[c].decision = "deny") => c \notin executed

\* C6 (amended): a tool call the host's callback chain denies is never
\* executed unless the sandbox-side wait timed out before the response was
\* handed to the call (fail-open on timeout).
C6_DenyBlocksUnlessTimedOut ==
    \A c \in Calls :
        (kind[c] = "hook" /\ hostResp[c].decision = "deny" /\ c \notin timedOut)
            => c \notin executed

C6_Witness ==
    \E c \in Calls :
        /\ kind[c] = "hook"
        /\ hostResp[c].decision = "deny"
        /\ CurStep(c) = "done"
        /\ c \notin timedOut
        /\ hookOut[c].permissionDecision = "deny"
        /\ c \notin executed

\* C7: when the wait of HookProxy.pre_tool_use times out, the call removes
\* the entry of its request_id from both tables and returns allow with no
\* reason and no updated input.
C7_HookTimeoutFailOpen ==
    [][\A c \in Calls :
          (kind[c] = "hook" /\ c \notin timedOut /\ c \in timedOut') =>
              /\ c \notin response_events'
              /\ response_data'[c] = NoResp
              /\ result'[c] = AllowDefault
              /\ pc'[c] = Len(HookProxySteps) + 1]_vars

C7_Witness ==
    \E c \in timedOut :
        kind[c] = "hook" /\ result[c] = AllowDefault /\ CurStep(c) = "done"

\* C8: when the wait of HostToolProxy.call_tool times out, the call removes
\* the entry of its request_id from both tables and returns a result with
\* is_error true and an explanatory text block.
C8_ToolTimeoutErrorResult ==
    [][\A c \in Calls :
          (kind[c] = "tool" /\ c \notin timedOut /\ c \in timedOut') =>
              /\ c \notin response_events'
              /\ response_data'[c] = NoResp
              /\ result'[c].is_error = TRUE
              /\ result'[c].content = <<"Timeout waiting for host tool response">>
              /\ pc'[c] = Len(HostToolProxySteps) + 1]_vars

C8_Witness ==
    \E c \in timedOut :
        kind[c] = "tool" /\ result[c].is_error /\ CurStep(c) = "done"

\* C9 (as claimed): while the host is dispatching one request, a further
\* line waiting on stdout (a message or another request) can be read by the
\* line loop.
C9_Original ==
    (/\ hostCur # NoLine
     /\ stdout # <<>>
     /\ Head(stdout).type \in {"message", "hook_request", "host_tool_request"})
        => ENABLED HostReadLine

\* The numbers of the ordinary lines among the first k non-request lines.
RECURSIVE OrdinaryNs(_)
OrdinaryNs(k) ==
    IF k = 0 THEN <<>>
    ELSE IF lineClass[k] \in {"message", "none"}
    THEN Append(OrdinaryNs(k - 1), k)
    ELSE OrdinaryNs(k - 1)

RECURSIVE OrdinaryYielded(_)
OrdinaryYielded(ys) ==
    IF ys = <<>> THEN <<>>
    ELSE IF lineClass[Head(ys).n] \in {"message", "none"}
    THEN <<Head(ys).n>> \o OrdinaryYielded(Tail(ys))
    ELSE OrdinaryYielded(Tail(ys))

\* C10: the ordinary messages yielded so far are exactly the ordinary lines
\* the host has read so far, in the order of their lines: none reordered,
\* duplicated or omitted, whatever requests and dropped lines lie between.
C10_MessagesInArrivalOrder ==
    OrdinaryYielded(yielded) = OrdinaryNs(nRead)

\* Two messages yielded around a completed round trip in the streaming path.
C10_Witness ==
    /\ features # {}
    /\ Len(yielded) = 2
    /\ \E c \in Calls : got[c] # NoResp

\* ------------------------------------------------- host dispatch (C11..)
\* The PreToolUse request of call c has been dispatched.
PreDone(c) == kind[c] = "hook" /\ hostResp[c] # NoResp

\* What the i-th callback invoked for the request of call c returned.
ResultAt(c, i) ==
    Callback(hostInvoked[c][i].callback, callTool[c], hostInvoked[c][i].tool_input)

\* The configured filter, if any, matches the tool name of call c.
FilterMatches(c) ==
    IF host_hooks.tool_filter = None THEN TRUE
    ELSE PatternMatches(host_hooks.tool_filter, callTool[c])

\* C11: dispatch_pre_tool_use invokes the pre-tool-use callbacks in
\* registration order and stops at the first that returns deny: the
\* callbacks invoked are the first ones registered, a callback that denied
\* is the last one invoked, and the response is deny with its reason; when
\* none denies, all of them are invoked.
C11_DenyShortCircuits ==
    \A c \in Calls :
        PreDone(c) =>
            LET inv == hostInvoked[c]
                chain == host_hooks.pre_tool_use IN
            /\ Len(inv) <= Len(chain)
            /\ \A i \in DOMAIN inv : inv[i].callback = chain[i]
            /\ \A i \in DOMAIN inv :
                   ResultAt(c, i).decision = "deny" =>
                       /\ i = Len(inv)
                       /\ hostResp[c].decision = "deny"
                       /\ hostResp[c].reason = ResultAt(c, i).reason
            /\ (FilterMatches(c) /\ \A i \in DOMAIN inv : ResultAt(c, i).decision # "deny")
                   => Len(inv) = Len(chain)

\* Two callbacks registered, the first denies with a reason: one invocation.
C11_Witness ==
    \E c \in Calls :
        /\ PreDone(c)
        /\ Len(host_hooks.pre_tool_use) = 2
        /\ Len(hostInvoked[c]) = 1
        /\ hostResp[c].decision = "deny"
        /\ hostResp[c].reason = "rm command blocked"

\* C12: with a tool_filter that does not match the tool name of a request,
\* no pre-tool-use and no post-tool-use callback is invoked and the
\* pre-tool-use response is allow without updated_input; with no filter
\* every request reaches the first registered callback.
C12_FilterSkipsCallbacks ==
    /\ \A c \in Calls :
          PreDone(c) =>
              /\ ~FilterMatches(c) =>
                     /\ hostInvoked[c] = <<>>
                     /\ hostResp[c].decision = "allow"
                     /\ hostResp[c].updated_input = None
              /\ (host_hooks.tool_filter = None /\ host_hooks.pre_tool_use # <<>>)
                     => hostInvoked[c] # <<>>
    /\ \A k \in DOMAIN postSeen :
          LET c == postSeen[k][1] - NCalls IN
          /\ ~FilterMatches(c) => postSeen[k][2] = <<>>
          /\ (host_hooks.tool_filter = None /\ host_hooks.post_tool_use # <<>>)
                 => postSeen[k][2] # <<>>

\* A denying callback behind a filter that does not match the request.
C12_Witness ==
    \E c \in Calls :
        /\ PreDone(c)
        /\ host_hooks.tool_filter = "Bash"
        /\ callTool[c] = "Read"
        /\ host_hooks.pre_tool_use = <<"counting_hook">>
        /\ hostInvoked[c] = <<>>
        /\ hostResp[c].decision = "allow"

\* The working input after the i-th invocation for the request of call c.
WorkingAfter(c, i) ==
    IF ResultAt(c, i).decision = "allow" /\ ResultAt(c, i).updated_input # None
    THEN ResultAt(c, i).updated_input
    ELSE hostInvoked[c][i].tool_input

\* C13: a callback that allows with an updated_input replaces the working
\* input every later callback is given, and the chain goes on; when all
\* callbacks allow, the response has updated_input exactly when the final
\* working input differs from the request's tool_input, and it is that input.
C13_InputChaining ==
    \A c \in Calls :
        PreDone(c) =>
            LET inv == hostInvoked[c]
                final == IF inv = <<>> THEN callInput[c]
                         ELSE WorkingAfter(c, Len(inv)) IN
            /\ inv # <<>> => inv[1].tool_input = callInput[c]
            /\ \A i \in DOMAIN inv :
                   i > 1 => inv[i].tool_input = WorkingAfter(c, i - 1)
            /\ \A i \in DOMAIN inv :
                   (ResultAt(c, i).decision = "allow" /\ i < Len(host_hooks.pre_tool_use))
                       => i < Len(inv)
            /\ hostResp[c].decision = "allow" =>
                   hostResp[c].updated_input =
                       IF final # callInput[c] THEN final ELSE None

\* The second callback is given the first one's rewrite, and the response
\* carries the final input.
C13_Witness ==
    \E c \in Calls :
        /\ PreDone(c)
        /\ Len(hostInvoked[c]) = 2
        /\ hostInvoked[c][2].tool_input # callInput[c]
        /\ hostResp[c].decision = "allow"
        /\ hostResp[c].updated_input = hostInvoked[c][2].tool_input

\* C14: a pre-tool-use callback that raises is treated as allow: the next
\* registered callback is still invoked, with the working input unchanged by
\* the failed one, and when no invoked callback denies the dispatch returns
\* an allow response.
C14_RaiseIsAllow ==
    \A c \in Calls :
        PreDone(c) =>
            LET inv == hostInvoked[c]
                chain == host_hooks.pre_tool_use IN
            /\ hostResp[c].type = "hook_response"
            /\ \A i \in DOMAIN inv :
                   (ResultAt(c, i) = Raise /\ i < Len(chain)) =>
                       /\ i < Len(inv)
                       /\ inv[i + 1].callback = chain[i + 1]
                       /\ inv[i + 1].tool_input = inv[i].tool_input
            /\ (\A i \in DOMAIN inv : ResultAt(c, i).decision # "deny")
                   => hostResp[c].decision = "allow"

\* A raising callback followed by one that rewrites the input.
C14_Witness ==
    \E c \in Calls :
        /\ PreDone(c)
        /\ Len(hostInvoked[c]) = 2
        /\ ResultAt(c, 1) = Raise
        /\ hostResp[c].decision = "allow"
        /\ hostResp[c].updated_input # None

\* C15: for a PostToolUse request the filter lets through, every
\* post-tool-use callback is invoked once, in registration order, also
\* after one that raises; and the host writes no response for the request:
\* the lines on the process's stdin are the responses to the other requests.
C15_PostCallbacksAllRun ==
    /\ \A k \in DOMAIN postSeen :
          LET c == postSeen[k][1] - NCalls
              inv == postSeen[k][2] IN
          FilterMatches(c) =>
              /\ Len(inv) = Len(host_hooks.post_tool_use)
              /\ \A i \in DOMAIN inv :
                     inv[i].callback = host_hooks.post_tool_use[i]
    /\ \A j \in DOMAIN stdin :
          stdin[j].request_id \in Calls /\ stdin[j] = hostResp[stdin[j].request_id]
    /\ Len(stdin) = Cardinality({c \in Calls : hostResp[c] # NoResp})

\* A raising post-tool-use callback registered before another one.
C15_Witness ==
    \E k \in DOMAIN postSeen :
        /\ Len(postSeen[k][2]) = 2
        /\ PostCallback(postSeen[k][2][1].callback) = "raise"
        /\ PostCallback(postSeen[k][2][2].callback) = "ok"
        /\ stdin = <<>>
        /\ hostCur = NoLine

\* C16 (as claimed): every deny response the host dispatcher produces
\* carries a reason that is a non-empty string.
C16_Original ==
    \A c \in Calls :
        (PreDone(c) /\ hostResp[c].decision = "deny")
            => hostResp[c].reason \notin {None, ""}

\* What the sandbox-side hook returns for a hook response.
HookOutFor(response) == pre_tool_use_hook(pre_tool_use_result(response))

\* C17: no deny response of the host dispatcher contains updated_input,
\* also when an earlier callback rewrote the input; and the sandbox-side
\* hook forwards no toolInput for a deny, whatever the response carries.
C17_NoInputWithDeny ==
    \A c \in Calls :
        (PreDone(c) /\ hostResp[c].decision = "deny") =>
            /\ hostResp[c].updated_input = None
            /\ \A i \in DOMAIN hostInvoked[c] :
                   LET forged == [hostResp[c] EXCEPT
                                    !.updated_input = hostInvoked[c][i].tool_input]
                   IN /\ HookOutFor(forged).permissionDecision = "deny"
                      /\ HookOutFor(forged).toolInput = None
            /\ HookOutFor(hostResp[c]).permissionDecision = "deny"
            /\ HookOutFor(hostResp[c]).toolInput = None

\* A deny from the second callback after the first one rewrote the input.
C17_Witness ==
    \E c \in Calls :
        /\ PreDone(c)
        /\ Len(hostInvoked[c]) = 2
        /\ hostInvoked[c][2].tool_input # callInput[c]
        /\ hostResp[c].decision = "deny"
        /\ hostResp[c].updated_input = None

\* The server list has a server of that name with a tool of that name.
ServerHasTool(servers, server_name, tool_name) ==
    \E i \in DOMAIN servers :
        /\ servers[i].name = server_name
        /\ \E j \in DOMAIN servers[i].tools : servers[i].tools[j].name = tool_name

\* C18 (as claimed): when the dispatch of a host-tool request completes and
\* no server of the request's server_name has a tool of its tool_name, no
\* handler was invoked and the response has is_error true and one text
\* block containing "not found".
C18_Original ==
    [][(/\ is_host_tool_request(hostCur)
        /\ hostCur' = NoLine
        /\ ~ServerHasTool(host_tools, hostCur.server_name, hostCur.tool_name))
       => (/\ hostInvoked'[hostCur.request_id] = <<>>
           /\ hostResp'[hostCur.request_id].is_error
           /\ Len(hostResp'[hostCur.request_id].content) = 1
           /\ Contains(hostResp'[hostCur.request_id].content[1], "not found"))]_vars

\* The host-tool request of call c has been dispatched to a handler.
ToolDone(c) == kind[c] = "tool" /\ hostResp[c] # NoResp /\ hostInvoked[c] # <<>>

\* What the handler invoked for the request of call c gave.
HandlerResultAt(c) ==
    Handler(hostInvoked[c][1].callback, hostInvoked[c][1].tool_input)

\* C19: when the handler of a host-tool request raises, in the call of a
\* plain function or in the awaited coroutine, dispatch returns a response
\* with is_error true and one text block containing the exception's
\* message; the host loop has written it to the process's stdin, is not
\* held by the request any more and can read a line that waits.
C19_HandlerErrorIsolated ==
    \A c \in Calls :
        (ToolDone(c) /\ HandlerResultAt(c).shape = "raise") =>
            /\ hostResp[c].type = "host_tool_response"
            /\ hostResp[c].is_error
            /\ Len(hostResp[c].content) = 1
            /\ Contains(hostResp[c].content[1], HandlerResultAt(c).value)
            /\ \E j \in DOMAIN stdin : stdin[j] = hostResp[c]
            /\ hostCur.request_id # c
            /\ stdout # <<>> => ENABLED HostReadLine

\* The plain-function handler of the first request raised, and the host has
\* read and answered the second request.
C19_Witness ==
    /\ ToolDone(1)
    /\ HandlerResultAt(1).shape = "raise"
    /\ ~HandlerResultAt(1).coroutine
    /\ hostResp[1].is_error
    /\ ToolDone(NCalls)
    /\ Len(stdin) = NCalls

\* C20: the response to a handler that returns has is_error false and, as
\* content: the handler's content list unchanged for a mapping with a
\* content key, one text block with the JSON serialization for another
\* mapping, one text block with the string for a string; handlers that
\* differ only in being a plain function or a coroutine function give the
\* same content.
C20_ResultNormalized ==
    /\ \A c \in Calls :
          (ToolDone(c) /\ HandlerResultAt(c).shape # "raise") =>
              LET r == HandlerResultAt(c) IN
              /\ ~hostResp[c].is_error
              /\ r.shape = "content" => hostResp[c].content = r.value
              /\ r.shape = "dict" =>
                     hostResp[c].content = <<"{" \o r.value \o "}">>
              /\ r.shape = "str" => hostResp[c].content = <<r.value>>
    /\ \A c, d \in Calls :
          (/\ ToolDone(c)
           /\ ToolDone(d)
           /\ [HandlerResultAt(c) EXCEPT !.coroutine = TRUE]
                  = [HandlerResultAt(d) EXCEPT !.coroutine = TRUE])
              => /\ hostResp[c].content = hostResp[d].content
                 /\ hostResp[c].is_error = hostResp[d].is_error

\* A plain-function handler that returns a mapping without content.
C20_Witness ==
    \E c \in Calls :
        /\ ToolDone(c)
        /\ HandlerResultAt(c).shape = "dict"
        /\ ~HandlerResultAt(c).coroutine
        /\ hostResp[c].content = <<"{\"value\": 1}">>

\* C21 (as claimed): when a handler returns a mapping with content and
\* is_error, the response of dispatch carries the handler's is_error.
C21_Original ==
    \A c \in Calls :
        (ToolDone(c) /\ HandlerResultAt(c).shape = "content")
            => hostResp[c].is_error = HandlerResultAt(c).is_error

\* C22: whenever the dispatch of a PreToolUse or host-tool request
\* completes, the line the host writes to the process's stdin carries the
\* request_id of that request and the kind that answers it: hook_response
\* for a hook request, host_tool_response for a host-tool request.
C22_ResponseEchoesRequest ==
    [][(/\ hostCur # NoLine
        /\ hostCur' = NoLine
        /\ ~(is_hook_request(hostCur) /\ hostCur.hook_event = "PostToolUse"))
       => (/\ Len(stdin') = Len(stdin) + 1
           /\ stdin'[Len(stdin')].request_id = hostCur.request_id
           /\ stdin'[Len(stdin')].type =
                  IF is_hook_request(hostCur) THEN "hook_response"
                  ELSE "host_tool_response")]_vars

\* The host has answered the last request with the tool-not-found error.
C22_Witness ==
    \E j \in DOMAIN stdin :
        /\ stdin[j].request_id = NCalls
        /\ stdin[j].type = "host_tool_response"
        /\ stdin[j].is_error
        /\ hostInvoked[NCalls] = <<>>

\* The host reads one line of the process's stdout, on either path.
ReadsLine == stdout # <<>> /\ stdout' = Tail(stdout)

\* C23: a line that is empty or not JSON is dropped and the run goes on; an
\* object with no _type or with _type "message" is an agent message, and is
\* yielded; "hook_request" and "host_tool_request" are the request kinds; no
\* object satisfies two of the three predicates.
C23_LineClassification ==
    [][ReadsLine =>
        LET line == Head(stdout)
            message == parse_hook_message(line) IN
        /\ (line.type \in {"empty", "garbage"}) <=> (message = NoLine)
        /\ (message = NoLine)
               => (yielded' = yielded /\ outcome' = Running /\ hostCur' = NoLine)
        /\ (message # NoLine) =>
               /\ is_agent_message(message) <=> (line.type \in {"none", "message"})
               /\ is_hook_request(message) <=> (line.type = "hook_request")
               /\ is_host_tool_request(message)
                      <=> (line.type = "host_tool_request")
               /\ ~(is_agent_message(message) /\ is_hook_request(message))
               /\ ~(is_agent_message(message) /\ is_host_tool_request(message))
               /\ ~(is_hook_request(message) /\ is_host_tool_request(message))
               /\ is_agent_message(message)
                      => yielded' = Append(yielded, Yielded(line.n, "none"))]_vars

\* An empty line was read and dropped, and the message after it was yielded.
C23_Witness ==
    /\ features # {}
    /\ lineClass = <<"empty", "message">>
    /\ yielded = <<Yielded(2, "none")>>
    /\ outcome = Running

\* C24: a decoded line whose _type is present but not a recognized value is
\* handled as an ordinary message and yielded to the caller, as a line with
\* no _type is.
C24_Original ==
    [][(ReadsLine /\ Head(stdout).type = "other")
       => (/\ Len(yielded') = Len(yielded) + 1
           /\ yielded'[Len(yielded')].n = Head(stdout).n)]_vars

\* The generator has ended by itself: it returned, or raised from the exit
\* code, and no exception of the platform was translated.
EndedByExit == outcome # Running /\ outcome.cause = None

\* C25: after the output stream ends the run completes without error if
\* and only if the exit code is zero; for every nonzero exit code the error
\* raised carries that exit code and the stderr text the process produced,
\* on the streaming path and on the plain path.
C25_Original ==
    EndedByExit =>
        /\ (outcome.state = "completed") <=> (returncode = 0)
        /\ (returncode # 0) =>
               /\ outcome.exit_code = returncode
               /\ Contains(outcome.message, stderr)

\* C26: a process that fails with stderr naming ModuleNotFoundError and
\* claude_agent_sdk raises CLINotInstalledError instead of
\* AgentExecutionError, whatever the nonzero exit code, and a failure
\* without that text never raises CLINotInstalledError.
C26_Original ==
    (EndedByExit /\ returncode # 0) =>
        /\ outcome.state = "raised"
        /\ (outcome.error = "CLINotInstalledError") <=> IsModuleNotFound(stderr)
        /\ (outcome.error = "AgentExecutionError") <=> ~IsModuleNotFound(stderr)

\* C27: the ways a run ends are told apart by the class of the error: a
\* TimeoutError of the platform gives SandboxTimeoutError, its
\* SandboxTerminatedError gives SandboxTerminatedError, a nonzero exit
\* gives AgentExecutionError or CLINotInstalledError, none in place of
\* another; once the generator has ended nothing more is yielded.
C27_OutcomesDistinct ==
    /\ [](outcome # Running =>
            /\ (outcome.error = "SandboxTimeoutError")
                   <=> (outcome.cause = "TimeoutError")
            /\ (outcome.error = "SandboxTerminatedError")
                   <=> (outcome.cause = "modal.exception.SandboxTerminatedError")
            /\ (outcome.error \in {"AgentExecutionError", "CLINotInstalledError"})
                   <=> (outcome.cause = None /\ exited /\ returncode # 0)
            /\ (outcome.state = "completed")
                   <=> (outcome.cause = None /\ exited /\ returncode = 0))
    /\ [][outcome # Running => (yielded' = yielded /\ outcome' = outcome)]_vars

\* The sandbox was terminated after one message had been yielded and while
\* another line was still unread.
C27_Witness ==
    /\ outcome.error = "SandboxTerminatedError"
    /\ yielded # <<>>
    /\ stdout # <<>>

\* The error classes of a rejected configuration.
ConfigErrors == {"NetworkConfigurationError", "MissingAPIKeyError"}

\* C28: block_network=True and a missing credential each reach the caller
\* of query() as their own error class, NetworkConfigurationError and
\* MissingAPIKeyError, not as SandboxCreationError, and no sandbox is made.
C28_Original ==
    (qpc = "done" /\ ConfigErrors \cap {qerr.error, qerr.cause} # {})
        => /\ qerr.error = IF options.block_network
                           THEN "NetworkConfigurationError"
                           ELSE "MissingAPIKeyError"
           /\ platform = "none"
           /\ sandbox = None

\* C29: on every way out of query() - its normal end, an error of the run,
\* a failed creation, the caller closing the generator - the sandbox has
\* been terminated and the manager holds none; terminate raises nothing,
\* and the second call, with the sandbox gone, does nothing.
C29_SandboxReleased ==
    (qpc \in {"done", "closed"}) =>
        /\ sandbox = None
        /\ platform \in {"none", "terminated"}
        /\ nTerminate <= 1
        /\ (platform = "terminated") <=> (nTerminate = 1)
        /\ qerr.error # "modal.exception.Error"

\* The platform had already ended the sandbox, so Sandbox.terminate raised
\* inside terminate, and query() still raised the error of the run.
C29_Witness ==
    /\ qpc = "done"
    /\ qerr.error = "SandboxTerminatedError"
    /\ nTerminate = 1
    /\ sandbox = None

\* C30: receive_response raises RuntimeError whenever no response is
\* pending - before any query(), and after an earlier receive_response was
\* consumed to its end; query() leaves exactly one response pending, the
\* one it made, and has connected the client first when it was not.
C30_ReceiveNeedsPending ==
    /\ [](client.queries = 0 => client.pending_response = NoGenerator)
    /\ [][/\ (ClientReceive /\ client.pending_response = NoGenerator)
               => (qerr' = Error("RuntimeError", None) /\ qpc' = "idle")
          /\ (ClientReceiveEnd /\ outcome.state = "completed")
               => (client'.pending_response = NoGenerator /\ qpc' = "idle")
          /\ (ClientQuery /\ qerr' = NoError)
               => (/\ client'.is_connected
                   /\ sandbox' # None
                   /\ client'.pending_response
                          = Generator(client.queries + 1, FALSE))]_vars

\* A first response was consumed to its end, messages included, and the
\* receive_response after it raised RuntimeError.
C30_Witness ==
    /\ client.queries = 1
    /\ client.pending_response = NoGenerator
    /\ outcome.state = "completed"
    /\ yielded # <<>>
    /\ qerr = Error("RuntimeError", None)

\* convert_message builds a ResultMessage from a message whose subtype is
\* success or error.
IsResultMessage(raw) == raw.subtype \in {"success", "error"}

\* The session id the caller received most recently in a result message
\* that carries one, None when there is none since the last clear_history.
RECURSIVE LastSession(_)
LastSession(seen) ==
    IF seen = <<>> THEN None
    ELSE LET last == seen[Len(seen)] IN
         IF last = Cleared THEN None
         ELSE IF IsResultMessage(last) /\ Truthy(last.session_id)
              THEN last.session_id
         ELSE LastSession(SubSeq(seen, 1, Len(seen) - 1))

\* C31: every query() of a client that starts a run starts it with the session id of the result
\* message received most recently since the last clear_history() as its
\* resume, and with no resume of the client's when there is none (the first
\* query, or the first after clear_history()): the process is then given the
\* resume of the options, if any.
C31_ResumeFollowsSession ==
    [][Len(client'.resumes) = Len(client.resumes) + 1 =>
         LET run == client'.resumes[Len(client'.resumes)] IN
         /\ client'.pending_response.gen = client'.queries
         /\ run.resume = LastSession(client.seen)
         /\ run.sdk = IF LastSession(client.seen) # None
                      THEN LastSession(client.seen)
                      ELSE IF Truthy(options.resume) THEN options.resume
                      ELSE None]_vars

\* A second query resumes the session of the first turn's error result, and
\* a query made after clear_history() has no resume of the client's.
C31_Witness ==
    /\ Len(client.resumes) = 2
    /\ client.resumes[1].resume = None
    /\ client.resumes[2].resume = "s2"
    /\ client.resumes[2].sdk = "s2"
    /\ options.resume = "s0"

\* C32 (as claimed): the is_error of the PostToolUseHookInput handed to the
\* post-tool-use callbacks for a tool the sandbox ran is true when the tool
\* run failed and false when it succeeded.
C32_Original ==
    \A k \in DOMAIN postSeen :
        LET c == postSeen[k][1] - NCalls IN
        (c \in executed /\ postSeen[k][2] # <<>>)
            => (postSeen[k][3].is_error <=> c \in failed)

\* C33 (as claimed): a pre-tool-use hook request is allowed by default when
\* its response has not arrived after the timeout of ModalAgentHooks, and
\* not before: the wait of a call that timed out lasted that timeout.
C33_Original ==
    \A c \in Calls :
        (kind[c] = "hook" /\ c \in timedOut) => waited[c] = host_hooks.timeout

\* C34: every call of HookProxy.pre_tool_use and HostToolProxy.call_tool
\* that has begun eventually returns, whatever the host does, and the step
\* on which a wait expires leaves the call's request_id in neither
\* _response_events nor _response_data.
C34_CallsReturn ==
    /\ \A c \in Calls : InProgress(c) ~> (CurStep(c) = "done")
    /\ [][\A c \in Calls :
            (c \in timedOut' /\ c \notin timedOut)
                => /\ c \notin response_events'
                   /\ response_data'[c] = NoResp
                   /\ CurStep(c)' = "done"]_vars

\* A host-tool call and a hook call have both returned on the expiry of
\* their waits, the host having written no response at all.
C34_Witness ==
    /\ \A c \in Calls : c \in timedOut /\ CurStep(c) = "done"
    /\ {kind[c] : c \in Calls} = {"hook", "tool"}
    /\ recvLog = <<>>
    /\ stdin = <<>>
    /\ response_events = {}

\* C35: the bytes on the process's stdout are always whole lines, each the
\* pieces of one emit in order, followed at most by the beginning of the
\* line being written; a piece is written only by the emitter that holds
\* _stdout_lock, and at most one emitter is inside the with block.
C35_LinesSerialized ==
    /\ \A i \in DOMAIN written :
          /\ written[i].k > 1 =>
                (i > 1 /\ written[i - 1] = [written[i] EXCEPT !.k = @ - 1])
          /\ (written[i].k < PiecesPerLine /\ i < Len(written)) =>
                written[i + 1] = [written[i] EXCEPT !.k = @ + 1]
    /\ \A e \in Emitters :
          emit_pc[e].at \in {"write", "release"} => stdout_lock = e

\* Lines of all three emitters are on stdout, whole, and an emitter is
\* waiting for the lock while another is in the middle of its line.
C35_Witness ==
    /\ {written[i].emitter : i \in DOMAIN written} = Emitters
    /\ \E e \in Emitters : emit_pc[e].at = "acquire"
    /\ \E e \in Emitters : emit_pc[e].at = "write" /\ emit_pc[e].pieces = 1

\* C36: a thread inside a block that reads or writes _response_events or
\* _response_data holds _response_lock, so at most one thread is inside;
\* the tables change only on a step of the lock holder inside its block;
\* and an event is set only by the event loop running an event.set handed
\* to it, which the reader hands over outside the tables' blocks and
\* without setting anything itself.
C36_TablesUnderLock ==
    /\ [](\A t \in Threads :
            lock_pc[t].at \in {"locked", "accessed"} => response_lock = t)
    /\ [][/\ (response_events' # response_events
              \/ response_data' # response_data)
                => /\ response_lock # None
                   /\ lock_pc[response_lock].at = "locked"
                   /\ lock_pc'[response_lock].at = "accessed"
          /\ \A c \in Calls :
                (c \in evset' /\ c \notin evset)
                    => (c \in loopq /\ c \notin loopq' /\ lock_pc' = lock_pc)
          /\ lock_pc'["reader"] # lock_pc["reader"] => evset' = evset]_vars

\* The reader has stored a response and found the waiter, while the loop
\* thread is about to enter a block of another call.
C36_Witness ==
    /\ lock_pc["reader"] = LockAt("accessed", "signal", 1)
    /\ response_lock = "reader"
    /\ response_data[1] # NoResp
    /\ CurStep(2) = "register"
    /\ lock_pc["loop"].at = "idle"

\* The responses the host has written to the process's stdin so far, in
\* order: those the reader has taken and those still unread.
HostWritten == recvLog \o stdin

\* A request line the host answers: a PreToolUse hook request or a host-tool
\* request.
NeedsResponse(message) ==
    \/ is_hook_request(message) /\ message.hook_event = "PreToolUse"
    \/ is_host_tool_request(message)

\* C37: the host writes one response line for each PreToolUse hook request
\* and each host-tool request it has read, when its dispatch completes and
\* before it reads another line, so that responses follow the order in
\* which the requests were read; no request is answered twice, and nothing
\* is written to stdin for any other line.
C37_OneResponseInOrder ==
    /\ [](\A id \in Calls :
            /\ Cardinality({j \in DOMAIN HostWritten :
                               HostWritten[j].request_id = id}) =
                   IF hostResp[id] # NoResp THEN 1 ELSE 0
            /\ (NeedsResponse(hostCur) /\ hostCur.request_id = id)
                   => hostResp[id] = NoResp)
    /\ [](\A j \in DOMAIN HostWritten : HostWritten[j].request_id \in Calls)
    /\ [][/\ (hostCur # NoLine /\ hostCur' = NoLine /\ NeedsResponse(hostCur))
                => /\ Len(stdin') = Len(stdin) + 1
                   /\ stdin'[Len(stdin')].request_id = hostCur.request_id
          /\ Len(HostWritten') > Len(HostWritten)
                => (hostCur # NoLine /\ hostCur' = NoLine
                    /\ NeedsResponse(hostCur))
          /\ ReadsLine => hostCur = NoLine]_vars

\* The host has answered a hook request and then a host-tool request, in
\* that order, and has also dispatched a PostToolUse request and yielded a
\* message.
C37_Witness ==
    /\ Len(HostWritten) = 2
    /\ HostWritten[1].type = "hook_response"
    /\ HostWritten[2].type = "host_tool_response"
    /\ postSeen # <<>>
    /\ yielded # <<>>

\* C38 (as claimed): a wait never times out on a request whose response the
\* reader has already stored in _response_data: the timeout path discards
\* no response that was received.
C38_Original ==
    [][\A c \in Calls :
          (c \in timedOut' /\ c \notin timedOut) => response_data[c] = NoResp]_vars

\* C39 (as claimed): HostToolDispatcher.get_tool(server_name, tool_name)
\* is the tool a server of that name returns from its own get_tool(tool_name),
\* and None exactly when no server of that name has such a tool.
C39_Original ==
    \A sn \in ServerNames \cup ServerNamesOf(host_tools),
       tn \in {"t", "b:t"} \cup ToolNamesOf(host_tools) :
        LET named == {i \in DOMAIN host_tools : host_tools[i].name = sn}
            found == get_tool(host_tools, sn, tn) IN
        IF \A i \in named : HostToolServer_get_tool(host_tools[i], tn) = NoTool
        THEN found = NoTool
        ELSE \E i \in named : found = HostToolServer_get_tool(host_tools[i], tn)

\* C40: a call that takes from _response_data a response of the wrong kind
\* does not apply it: pre_tool_use returns allow with no reason and no
\* updated input for a response whose _type is not hook_response, whatever
\* it says, and the hook does not deny; call_tool returns an is_error
\* result that does not carry the response's content for a response whose
\* _type is not host_tool_response.
C40_WrongKindNotApplied ==
    [][\A c \in Calls :
          (got[c] = NoResp /\ got'[c] # NoResp) =>
              /\ (kind[c] = "hook" /\ got'[c].type # "hook_response")
                    => /\ result'[c] = AllowDefault
                       /\ hookOut'[c].permissionDecision # "deny"
                       /\ hookOut'[c].toolInput = None
              /\ (kind[c] = "tool" /\ got'[c].type # "host_tool_response")
                    => /\ result'[c].is_error
                       /\ result'[c].content # got'[c].content]_vars

\* A hook call was handed a host_tool_response that says deny and returned
\* allow, and a host-tool call was handed a hook_response and returned an
\* error.
C40_Witness ==
    \E c \in Calls, d \in Calls :
        /\ kind[c] = "hook"
        /\ got[c].type = "host_tool_response"
        /\ got[c].decision = "deny"
        /\ result[c] = AllowDefault
        /\ kind[d] = "tool"
        /\ got[d].type = "hook_response"
        /\ result[d].is_error

====
